---- MODULE Spec2Model ----
(***************************************************************************)
(* A model of the Lox bytecode compiler and virtual machine (rustlox):     *)
(* the string interner, the chunk, the AST compiler and the VM dispatch    *)
(* loop with its call frames, globals and open/closed upvalue cells.       *)
(*                                                                         *)
(* Offsets, slots and handles are 0-based as in the source; TLA+ sequences *)
(* are 1-based, so element i of a Rust vector v is v[i + 1] here.          *)
(***************************************************************************)
EXTENDS Integers, Sequences, FiniteSets, TLC

(***************************************************************************)
(* Machine limits.                                                         *)
(***************************************************************************)
U8_MAX == 255
U16_MAX == 65535
CALL_FRAME_MAX == 64
STACK_MAX == 256

(***************************************************************************)
(* Bounds of the model.                                                    *)
(***************************************************************************)
\* interpret calls made on one VM (the REPL feeds one line per call)
MaxInterprets == 3
\* clock() returns one of 0..MaxClock
MaxClock == 1
ClockValues == 0..MaxClock

(***************************************************************************)
(* Opcodes.  OpCode carries the discriminants of enum Op; OpCodeVM the     *)
(* opcodes the compiler and the VM use beyond them, numbered after.        *)
(***************************************************************************)
OpCode ==
  [Constant |-> 0, Nil |-> 1, True |-> 2, False |-> 3, Pop |-> 4,
   GetLocal |-> 5, SetLocal |-> 6, GetGlobal |-> 7, DefineGlobal |-> 8,
   SetGlobal |-> 9, Equal |-> 10, Greater |-> 11, Less |-> 12, Add |-> 13,
   Subtract |-> 14, Multiply |-> 15, Divide |-> 16, Not |-> 17,
   Negate |-> 18, PrintOp |-> 19, Jump |-> 20, JumpIfFalse |-> 21,
   Return |-> 22]

OpCodeVM ==
  [GetUpvalue |-> 23, SetUpvalue |-> 24, Loop |-> 25, Call |-> 26,
   Closure |-> 27, CloseUpvalue |-> 28]

Op == OpCode @@ OpCodeVM

\* Op::try_from(u8): the opcode a byte decodes to, "invalid" when none does
OpTryFrom(byte) ==
  IF \E n \in DOMAIN Op : Op[n] = byte
  THEN CHOOSE n \in DOMAIN Op : Op[n] = byte
  ELSE "invalid"

(***************************************************************************)
(* Values.                                                                 *)
(***************************************************************************)
Nil == [k |-> "Nil"]
Bool(b) == [k |-> "Bool", v |-> b]
Number(n) == [k |-> "Number", v |-> n]
String(h) == [k |-> "String", v |-> h]
Native(f) == [k |-> "Native", v |-> f]
FunctionValue(f) == [k |-> "Function", function |-> f]
ClosureValue(c) == [k |-> "Closure", closure |-> c]

\* Closure::new: no upvalue cell yet
ClosureNew(function) ==
  [function |-> function, upvalues |-> <<>>,
   upvalue_count |-> function.upvalue_count]

\* impl PartialEq for Value
ValueEq(a, b) ==
  CASE a.k = "Bool" /\ b.k = "Bool" -> a.v = b.v
    [] a.k = "Nil" /\ b.k = "Nil" -> TRUE
    [] a.k = "Number" /\ b.k = "Number" -> a.v = b.v
    [] a.k = "String" /\ b.k = "String" -> a.v = b.v
    [] a.k = "Function" /\ b.k = "Function" ->
         a.function.chunk = b.function.chunk
    [] a.k = "Native" /\ b.k = "Native" -> a.v = b.v
    [] OTHER -> FALSE

\* Value::is_falsy
IsFalsy(v) == v.k = "Nil" \/ (v.k = "Bool" /\ v.v = FALSE)

(***************************************************************************)
(* String interner.  The interner is the vector of interned strings; the   *)
(* handle of a string is its index in it.                                  *)
(***************************************************************************)
\* Interner::intern without the lookup in handle_map
InternFresh(strings, s) ==
  [strings |-> Append(strings, s), handle |-> Len(strings)]

\* Interner::intern: [strings, handle]
Intern(strings, s) ==
  IF \E i \in 1..Len(strings) : strings[i] = s
  THEN [strings |-> strings,
        handle |-> (CHOOSE i \in 1..Len(strings) : strings[i] = s) - 1]
  ELSE [strings |-> Append(strings, s), handle |-> Len(strings)]

\* Handle::as_str
AsStr(strings, handle) == strings[handle + 1]

\* Function::get_name
GetName(strings, function) ==
  IF AsStr(strings, function.name) = "" THEN "<script>"
  ELSE AsStr(strings, function.name)

\* Value::print: the text written for a value
ValueText(strings, v) ==
  CASE v.k = "Bool" -> IF v.v THEN "true" ELSE "false"
    [] v.k = "Number" -> ToString(v.v)
    [] v.k = "String" -> AsStr(strings, v.v)
    [] v.k = "Function" ->
         IF GetName(strings, v.function) = "<script>" THEN "<script>"
         ELSE "<fn " \o GetName(strings, v.function) \o ">"
    [] v.k = "Native" -> "<native fn>"
    [] v.k = "Closure" ->
         IF GetName(strings, v.closure.function) = "<script>" THEN "<script>"
         ELSE "<fn " \o GetName(strings, v.closure.function) \o ">"
    [] OTHER -> "nil"

(***************************************************************************)
(* Chunk.                                                                  *)
(***************************************************************************)
ChunkNew == [code |-> <<>>, constants |-> <<>>, lines |-> <<>>]

\* Chunk::write without the push onto lines
ChunkWriteCode(chunk, byte, line) == [chunk EXCEPT !.code = Append(@, byte)]

\* Chunk::write
ChunkWrite(chunk, byte, line) ==
  [chunk EXCEPT !.code = Append(@, byte), !.lines = Append(@, line)]

\* Chunk::add_constant (rustlox): Err when the length does not fit a u8
AddConstant(chunk, value) ==
  IF Len(chunk.constants) > U8_MAX
  THEN [ok |-> FALSE, chunk |-> chunk, index |-> 0]
  ELSE [ok |-> TRUE,
        chunk |-> [chunk EXCEPT !.constants = Append(@, value)],
        index |-> Len(chunk.constants)]

(***************************************************************************)
(* Compiler.  A compiler state cw is the CompilerWrapper together with the *)
(* heaps it writes: the chain of Compilers (the last one is `current`, the *)
(* one before it its `enclosing`), the chunks (a Function names its        *)
(* Rc<Chunk> by its index in `chunks`), the string interner, the messages  *)
(* written to stderr, the Result of the last call (ok), whether the        *)
(* compiler panicked, and the value the last call returned (ret).          *)
(***************************************************************************)
NoDepth == -1

LocalNew(name, depth) == [name |-> name, depth |-> depth, is_captured |-> FALSE]

\* Compiler::new, given the handle of its name and its fresh chunk
CompilerNew(name, chunk) ==
  [function |-> [arity |-> 0, chunk |-> chunk, name |-> name,
                 upvalue_count |-> 0],
   scope_depth |-> 0,
   locals |-> <<LocalNew("", 0)>>,
   upvalues |-> <<>>]

\* the wrapper pushing a new Compiler whose enclosing is the current one
PushCompiler(cw, name) ==
  LET i == Intern(cw.strings, name) IN
  [cw EXCEPT !.strings = i.strings,
             !.chunks = Append(@, ChunkNew),
             !.compilers = Append(@, CompilerNew(i.handle, Len(cw.chunks) + 1))]

\* CompilerWrapper::new
CompilerWrapperNew(chunks, strings) ==
  PushCompiler([compilers |-> <<>>, current_line |-> 0, chunks |-> chunks,
                strings |-> strings, errs |-> <<>>, ok |-> TRUE,
                panic |-> FALSE, ret |-> 0], "")

Current(cw) == cw.compilers[Len(cw.compilers)]
CurrentChunk(cw) == cw.chunks[Current(cw).function.chunk]
\* CompilerWrapper::get_current_len
GetCurrentLen(cw) == Len(CurrentChunk(cw).code)

\* CompilerWrapper::error: writes the message, returns Err
Error(cw, lexeme, message) ==
  [cw EXCEPT !.errs = Append(@, (IF lexeme = "" THEN ""
                                 ELSE "Error at '" \o lexeme \o "': ")
                                \o message),
             !.ok = FALSE]

\* a panic of the compiler (an unwrap of None, an index out of range)
Panic(cw) == [cw EXCEPT !.ok = FALSE, !.panic = TRUE]

\* CompilerWrapper::emit_byte
EmitByte(cw, byte) ==
  [cw EXCEPT !.chunks[Current(cw).function.chunk] =
               ChunkWrite(@, byte, cw.current_line)]

\* CompilerWrapper::emit_op
EmitOp(cw, op) == EmitByte(cw, Op[op])

\* CompilerWrapper::emit_ops
EmitOps(cw, op1, op2) == EmitOp(EmitOp(cw, op1), op2)

\* CompilerWrapper::emit_bytes
EmitBytes(cw, byte1, byte2) == EmitByte(EmitByte(cw, byte1), byte2)

\* CompilerWrapper::emit_loop
EmitLoop(cw, loop_start) ==
  LET c1 == EmitOp(cw, "Loop")
      offset == GetCurrentLen(c1) - loop_start + 2
  IN IF offset > U16_MAX THEN Error(c1, "", "Loop body too large.")
     ELSE EmitByte(EmitByte(c1, (offset \div 256) % 256), offset % 256)

\* CompilerWrapper::emit_jump: ret is the offset of the operand
EmitJump(cw, instruction) ==
  LET c1 == EmitByte(EmitByte(EmitOp(cw, instruction), 255), 255)
  IN [c1 EXCEPT !.ret = GetCurrentLen(c1) - 2]

\* CompilerWrapper::emit_return
EmitReturn(cw) == EmitOp(EmitOp(cw, "Nil"), "Return")

\* CompilerWrapper::make_constant: ret is the constant's index.  The source
\* hands add_constant's Result on as the u8; an Err has no index, and the
\* model then names constant 0 and reports nothing.
MakeConstant(cw, value) ==
  LET r == AddConstant(CurrentChunk(cw), value) IN
  [cw EXCEPT !.chunks[Current(cw).function.chunk] = r.chunk,
             !.ret = IF r.ok THEN r.index ELSE 0]

\* CompilerWrapper::emit_constant
EmitConstant(cw, value) ==
  LET c1 == MakeConstant(cw, value) IN EmitBytes(c1, Op.Constant, c1.ret)

\* patch_jump writing the low byte of the jump first
PatchJumpLowFirst(cw, offset) ==
  LET jump == GetCurrentLen(cw) - offset - 2 IN
  IF jump > U16_MAX THEN Error(cw, "", "Too much code to jump over.")
  ELSE [cw EXCEPT !.chunks[Current(cw).function.chunk].code =
          [@ EXCEPT ![offset + 1] = jump % 256,
                    ![offset + 2] = (jump \div 256) % 256]]

\* CompilerWrapper::patch_jump
PatchJump(cw, offset) ==
  LET jump == GetCurrentLen(cw) - offset - 2 IN
  IF jump > U16_MAX THEN Error(cw, "", "Too much code to jump over.")
  ELSE [cw EXCEPT !.chunks[Current(cw).function.chunk].code =
          [@ EXCEPT ![offset + 1] = (jump \div 256) % 256,
                    ![offset + 2] = jump % 256]]

\* CompilerWrapper::identifier_constant
IdentifierConstant(cw, name) ==
  LET i == Intern(cw.strings, name) IN
  MakeConstant([cw EXCEPT !.strings = i.strings], String(i.handle))

\* CompilerWrapper::add_local
AddLocal(cw, name) ==
  IF Len(Current(cw).locals) >= U8_MAX
  THEN Error(cw, "", "Too many local variables in function.")
  ELSE [cw EXCEPT !.compilers[Len(cw.compilers)].locals =
          Append(@, LocalNew(name, NoDepth))]

\* the loop of declare_variable without its break at an outer scope
DeclaredInFunction(compiler, name) ==
  \E i \in 1..Len(compiler.locals) : compiler.locals[i].name = name

\* the loop of declare_variable: some local of the current scope has the name
DeclaredInScope(compiler, name) ==
  \E i \in 1..Len(compiler.locals) :
     /\ compiler.locals[i].name = name
     /\ \A j \in i..Len(compiler.locals) :
          ~(compiler.locals[j].depth # NoDepth
            /\ compiler.locals[j].depth < compiler.scope_depth)

\* CompilerWrapper::declare_variable
DeclareVariable(cw, name) ==
  IF Current(cw).scope_depth = 0 THEN cw
  ELSE IF DeclaredInScope(Current(cw), name.lexeme)
  THEN Error(cw, name.lexeme,
             "Already a variable with this name in this scope.")
  ELSE AddLocal(cw, name.lexeme)

\* CompilerWrapper::parse_variable: ret is the global's constant (0, a local)
ParseVariable(cw, token) ==
  LET c1 == DeclareVariable([cw EXCEPT !.current_line = token.line], token)
  IN IF ~c1.ok THEN c1
     ELSE IF Current(c1).scope_depth > 0 THEN [c1 EXCEPT !.ret = 0]
     ELSE IdentifierConstant(c1, token.lexeme)

\* CompilerWrapper::mark_initialized
MarkInitialized(cw) ==
  IF Current(cw).scope_depth = 0 THEN cw
  ELSE [cw EXCEPT !.compilers[Len(cw.compilers)].locals[
                     Len(Current(cw).locals)].depth = Current(cw).scope_depth]

\* CompilerWrapper::define_variable
DefineVariable(cw, global) ==
  IF Current(cw).scope_depth > 0 THEN MarkInitialized(cw)
  ELSE EmitBytes(cw, Op.DefineGlobal, global)

\* CompilerWrapper::begin_scope
BeginScope(cw) ==
  [cw EXCEPT !.compilers[Len(cw.compilers)].scope_depth = @ + 1]

\* the loop of end_scope removing the locals of the enclosing scope as well
RECURSIVE EndScopeLoopInclusive(_, _, _)
EndScopeLoopInclusive(locals, depth, ops) ==
  IF Len(locals) = 0 THEN [locals |-> locals, ops |-> ops, panic |-> FALSE]
  ELSE LET local == locals[Len(locals)] IN
       IF local.depth = NoDepth
       THEN [locals |-> locals, ops |-> ops, panic |-> TRUE]
       ELSE IF local.depth >= depth
       THEN EndScopeLoopInclusive(SubSeq(locals, 1, Len(locals) - 1), depth,
                                  Append(ops, IF local.is_captured
                                              THEN "CloseUpvalue" ELSE "Pop"))
       ELSE [locals |-> locals, ops |-> ops, panic |-> FALSE]

\* the loop of end_scope on the locals, given the decremented depth:
\* [locals, ops, panic]
RECURSIVE EndScopeLoop(_, _, _)
EndScopeLoop(locals, depth, ops) ==
  IF Len(locals) = 0 THEN [locals |-> locals, ops |-> ops, panic |-> FALSE]
  ELSE LET local == locals[Len(locals)] IN
       IF local.depth = NoDepth
       THEN [locals |-> locals, ops |-> ops, panic |-> TRUE]
       ELSE IF local.depth > depth
       THEN EndScopeLoop(SubSeq(locals, 1, Len(locals) - 1), depth,
                         Append(ops, IF local.is_captured THEN "CloseUpvalue"
                                     ELSE "Pop"))
       ELSE [locals |-> locals, ops |-> ops, panic |-> FALSE]

RECURSIVE EmitOpList(_, _, _)
EmitOpList(cw, ops, i) ==
  IF i > Len(ops) THEN cw ELSE EmitOpList(EmitOp(cw, ops[i]), ops, i + 1)

\* CompilerWrapper::end_scope
EndScope(cw) ==
  IF Current(cw).scope_depth = 0 THEN Panic(cw)
  ELSE LET depth == Current(cw).scope_depth - 1
           r == EndScopeLoop(Current(cw).locals, depth, <<>>)
           c1 == [cw EXCEPT !.compilers[Len(cw.compilers)].scope_depth = depth,
                            !.compilers[Len(cw.compilers)].locals = r.locals]
       IN IF r.panic THEN Panic(c1) ELSE EmitOpList(c1, r.ops, 1)

\* CompilerWrapper::end_compiler: ret is the finished Compiler
EndCompiler(cw) ==
  LET c1 == EmitReturn(cw) IN
  [c1 EXCEPT !.compilers = SubSeq(@, 1, Len(@) - 1), !.ret = Current(c1)]

(***************************************************************************)
(* Name resolution.                                                        *)
(***************************************************************************)
\* resolve_local scanning the locals without `.rev()`: the first of that name
ResolveLocalForward(compiler, name) ==
  LET hits == {i \in 1..Len(compiler.locals) : compiler.locals[i].name = name}
  IN IF hits = {} THEN [err |-> FALSE, found |-> FALSE, slot |-> 0]
     ELSE LET i == CHOOSE i \in hits : \A j \in hits : i <= j IN
          IF compiler.locals[i].depth = NoDepth
          THEN [err |-> TRUE, found |-> FALSE, slot |-> 0]
          ELSE [err |-> FALSE, found |-> TRUE, slot |-> (i - 1) % 256]

\* Compiler::resolve_local: [err, found, slot]; the last local of that name
ResolveLocal(compiler, name) ==
  LET hits == {i \in 1..Len(compiler.locals) : compiler.locals[i].name = name}
  IN IF hits = {} THEN [err |-> FALSE, found |-> FALSE, slot |-> 0]
     ELSE LET i == CHOOSE i \in hits : \A j \in hits : j <= i IN
          IF compiler.locals[i].depth = NoDepth
          THEN [err |-> TRUE, found |-> FALSE, slot |-> 0]
          ELSE [err |-> FALSE, found |-> TRUE, slot |-> (i - 1) % 256]

\* Compiler::add_upvalue: [compiler, err, slot].  The loop variable `index`
\* of the source shadows the parameter: an entry is taken for the pair when
\* its captured index equals its own position, and its captured index is
\* what is returned.
AddUpvalue(compiler, index, is_local) ==
  LET hits == {p \in 1..Len(compiler.upvalues) :
                 /\ compiler.upvalues[p].index = p - 1
                 /\ compiler.upvalues[p].is_local = is_local}
  IN IF hits # {}
     THEN [compiler |-> compiler, err |-> FALSE,
           slot |-> compiler.upvalues[CHOOSE p \in hits :
                                        \A q \in hits : p <= q].index]
     ELSE [compiler |->
             [compiler EXCEPT
                !.upvalues = Append(@, [index |-> index, is_local |-> is_local]),
                !.function.upvalue_count = @ + 1],
           err |-> Len(compiler.upvalues) > U8_MAX,
           slot |-> Len(compiler.upvalues)]

\* Compiler::resolve_upvalue for the compiler at position i of the chain:
\* [compilers, err, msg, found, slot]
RECURSIVE ResolveUpvalue(_, _, _)
ResolveUpvalue(compilers, i, name) ==
  IF i = 1
  THEN [compilers |-> compilers, err |-> FALSE, msg |-> "", found |-> FALSE,
        slot |-> 0]
  ELSE
    LET local == ResolveLocal(compilers[i - 1], name) IN
    IF local.err
    THEN [compilers |-> compilers, err |-> TRUE,
          msg |-> "Can't read local variable in its own initializer.",
          found |-> FALSE, slot |-> 0]
    ELSE IF local.found
    THEN LET cs == [compilers EXCEPT
                      ![i - 1].locals[local.slot + 1].is_captured = TRUE]
             a == AddUpvalue(cs[i], local.slot, TRUE)
         IN [compilers |-> [cs EXCEPT ![i] = a.compiler], err |-> a.err,
             msg |-> "Too many closure variables in function.",
             found |-> ~a.err, slot |-> a.slot]
    ELSE LET up == ResolveUpvalue(compilers, i - 1, name) IN
         IF up.err THEN up
         ELSE IF up.found
         THEN LET a == AddUpvalue(up.compilers[i], up.slot, FALSE)
              IN [compilers |-> [up.compilers EXCEPT ![i] = a.compiler],
                  err |-> a.err,
                  msg |-> "Too many closure variables in function.",
                  found |-> ~a.err, slot |-> a.slot]
         ELSE up

\* CompilerWrapper::get_arg: ret is <<op, arg>>
GetArg(cw, name, local, upvalue, global) ==
  LET l == ResolveLocal(Current(cw), name) IN
  IF l.found THEN [cw EXCEPT !.ret = <<local, l.slot>>]
  ELSE IF l.err
  THEN Error(cw, name, "Can't read local variable in its own initializer.")
  ELSE LET u == ResolveUpvalue(cw.compilers, Len(cw.compilers), name)
           c1 == [cw EXCEPT !.compilers = u.compilers]
       IN IF u.found THEN [c1 EXCEPT !.ret = <<upvalue, u.slot>>]
          ELSE IF u.err THEN Error(c1, name, u.msg)
          ELSE LET c2 == IdentifierConstant(c1, name)
               IN [c2 EXCEPT !.ret = <<global, c2.ret>>]

(***************************************************************************)
(* The AST (stmt.rs, expr.rs) and the tokens it refers to.  An absent      *)
(* Option is None.                                                         *)
(***************************************************************************)
None == [t |-> "None"]
Token(kind, lexeme, line) == [kind |-> kind, lexeme |-> lexeme, line |-> line]

Block(statements) == [t |-> "Block", statements |-> statements]
ExpressionStmt(expression) == [t |-> "Expression", expression |-> expression]
For(initializer, condition, increment, body) ==
  [t |-> "For", initializer |-> initializer, condition |-> condition,
   increment |-> increment, body |-> body]
Function(name, params, body, brace) ==
  [t |-> "Function", name |-> name, params |-> params, body |-> body,
   brace |-> brace]
If(condition, then_branch, else_branch) ==
  [t |-> "If", condition |-> condition, then_branch |-> then_branch,
   else_branch |-> else_branch]
PrintStmt(keyword, expression) ==
  [t |-> "PrintStmt", keyword |-> keyword, expression |-> expression]
Return(keyword, value) == [t |-> "Return", keyword |-> keyword, value |-> value]
Var(name, initializer) == [t |-> "Var", name |-> name, initializer |-> initializer]
While(condition, body) == [t |-> "While", condition |-> condition, body |-> body]

Assign(name, value) == [t |-> "Assign", name |-> name, value |-> value]
Binary(left, operator, right) ==
  [t |-> "Binary", left |-> left, operator |-> operator, right |-> right]
Call(callee, args) == [t |-> "Call", callee |-> callee, args |-> args]
Grouping(expr) == [t |-> "Grouping", expr |-> expr]
Literal(value) == [t |-> "Literal", value |-> value]
Logical(left, operator, right) ==
  [t |-> "Logical", left |-> left, operator |-> operator, right |-> right]
Unary(operator, right) == [t |-> "Unary", operator |-> operator, right |-> right]
Variable(name) == [t |-> "Variable", name |-> name]

\* the decimal digit a character is
DigitValue(ch) ==
  CASE ch = "0" -> 0 [] ch = "1" -> 1 [] ch = "2" -> 2 [] ch = "3" -> 3
    [] ch = "4" -> 4 [] ch = "5" -> 5 [] ch = "6" -> 6 [] ch = "7" -> 7
    [] ch = "8" -> 8 [] ch = "9" -> 9

\* lexeme.parse::<f64>() on a literal without a fraction
RECURSIVE ParseNumber(_)
ParseNumber(lexeme) ==
  IF Len(lexeme) = 0 THEN 0
  ELSE 10 * ParseNumber(SubSeq(lexeme, 1, Len(lexeme) - 1))
       + DigitValue(SubSeq(lexeme, Len(lexeme), Len(lexeme)))

(***************************************************************************)
(* Code generation.  Each operator is the CompilerWrapper method of the    *)
(* same name; a `?` of the source is the test of ok.                       *)
(***************************************************************************)
RECURSIVE Statement(_, _)
RECURSIVE StatementList(_, _, _)
RECURSIVE Expression(_, _)
RECURSIVE ExpressionList(_, _, _)
RECURSIVE CompileFunction(_, _)

\* `x?`: the rest K of the method runs on an Ok, an Err is returned as it is
Try(c, K(_)) == IF c.ok THEN K(c) ELSE c
\* `let x = ...;` followed by the rest K of the method
Then(c, K(_)) == K(c)

\* CompilerWrapper::number
CompileNumber(cw, lexeme) == EmitConstant(cw, Number(ParseNumber(lexeme)))

\* CompilerWrapper::string
CompileString(cw, lexeme) ==
  LET i == Intern(cw.strings, SubSeq(lexeme, 2, Len(lexeme) - 1)) IN
  EmitConstant([cw EXCEPT !.strings = i.strings], String(i.handle))

\* CompilerWrapper::literal
CompileLiteral(cw, literal) ==
  LET c1 == [cw EXCEPT !.current_line = literal.value.line] IN
  CASE literal.value.kind = "Nil" -> EmitOp(c1, "Nil")
    [] literal.value.kind = "False" -> EmitOp(c1, "False")
    [] literal.value.kind = "True" -> EmitOp(c1, "True")
    [] literal.value.kind = "Number" -> CompileNumber(c1, literal.value.lexeme)
    [] literal.value.kind = "String" -> CompileString(c1, literal.value.lexeme)
    [] OTHER -> Panic(c1)

\* `self.emit_bytes(op as u8, arg)` on what get_arg returned
EmitArg(cw) == EmitBytes(cw, Op[cw.ret[1]], cw.ret[2])

\* CompilerWrapper::variable
CompileVariable(cw, variable) ==
  Try(GetArg([cw EXCEPT !.current_line = variable.name.line],
             variable.name.lexeme, "GetLocal", "GetUpvalue", "GetGlobal"),
      LAMBDA c1 : EmitArg(c1))

\* CompilerWrapper::assignment
CompileAssignment(cw, assignment) ==
  Try(Expression(cw, assignment.value), LAMBDA c1 :
  Try(GetArg(c1, assignment.name.lexeme, "SetLocal", "SetUpvalue", "SetGlobal"),
      LAMBDA c2 : EmitArg(c2)))

\* the match of CompilerWrapper::binary on the operator
BinaryOperator(cw, kind) ==
  CASE kind = "BangEqual" -> EmitOps(cw, "Equal", "Not")
    [] kind = "EqualEqual" -> EmitOp(cw, "Equal")
    [] kind = "Greater" -> EmitOp(cw, "Greater")
    [] kind = "GreaterEqual" -> EmitOps(cw, "Less", "Not")
    [] kind = "Less" -> EmitOp(cw, "Less")
    [] kind = "LessEqual" -> EmitOps(cw, "Greater", "Not")
    [] kind = "Plus" -> EmitOp(cw, "Add")
    [] kind = "Minus" -> EmitOp(cw, "Subtract")
    [] kind = "Slash" -> EmitOp(cw, "Divide")
    [] kind = "Star" -> EmitOp(cw, "Multiply")
    [] OTHER -> Panic(cw)

\* CompilerWrapper::binary
CompileBinary(cw, binary) ==
  Try(Expression(cw, binary.left), LAMBDA c1 :
  Try(Expression(c1, binary.right), LAMBDA c2 :
      BinaryOperator([c2 EXCEPT !.current_line = binary.operator.line],
                     binary.operator.kind)))

\* CompilerWrapper::call
CompileCall(cw, call) ==
  Try(Expression(cw, call.callee), LAMBDA c1 :
  Try(ExpressionList(c1, call.args, 1), LAMBDA c2 :
      EmitBytes(c2, Op.Call, Len(call.args) % 256)))

\* the match of CompilerWrapper::unary on the operator
UnaryOperator(cw, kind) ==
  CASE kind = "Bang" -> EmitOp(cw, "Not")
    [] kind = "Minus" -> EmitOp(cw, "Negate")
    [] OTHER -> Panic(cw)

\* CompilerWrapper::unary
CompileUnary(cw, unary) ==
  Try(Expression([cw EXCEPT !.current_line = unary.operator.line], unary.right),
      LAMBDA c1 : UnaryOperator(c1, unary.operator.kind))

\* `and` without its jump: the left value is dropped, the right one computed
CompileAndEager(cw, logical) ==
  Try(Expression(cw, logical.left), LAMBDA c1 :
      Expression(EmitOp(c1, "Pop"), logical.right))

\* CompilerWrapper::and
CompileAnd(cw, logical) ==
  Try(Expression(cw, logical.left), LAMBDA c1 :
  Then(EmitJump(c1, "JumpIfFalse"), LAMBDA jump :
  Try(Expression(EmitOp(jump, "Pop"), logical.right), LAMBDA c3 :
      PatchJump(c3, jump.ret))))

\* CompilerWrapper::or
CompileOr(cw, logical) ==
  Try(Expression(cw, logical.left), LAMBDA c1 :
  Then(EmitJump(c1, "JumpIfFalse"), LAMBDA else_jump :
  Then(EmitJump(else_jump, "Jump"), LAMBDA end_jump :
  Try(PatchJump(end_jump, else_jump.ret), LAMBDA c4 :
  Try(Expression(EmitOp(c4, "Pop"), logical.right), LAMBDA c5 :
      PatchJump(c5, end_jump.ret))))))

\* CompilerWrapper::logical
CompileLogical(cw, logical) ==
  CASE logical.operator.kind = "And" -> CompileAnd(cw, logical)
    [] logical.operator.kind = "Or" -> CompileOr(cw, logical)
    [] OTHER -> Panic(cw)

\* CompilerWrapper::expression
Expression(cw, expression) ==
  CASE expression.t = "Assign" -> CompileAssignment(cw, expression)
    [] expression.t = "Binary" -> CompileBinary(cw, expression)
    [] expression.t = "Call" -> CompileCall(cw, expression)
    [] expression.t = "Grouping" -> Expression(cw, expression.expr)
    [] expression.t = "Literal" -> CompileLiteral(cw, expression)
    [] expression.t = "Logical" -> CompileLogical(cw, expression)
    [] expression.t = "Unary" -> CompileUnary(cw, expression)
    [] expression.t = "Variable" -> CompileVariable(cw, expression)

\* `for arg in &call.args { self.expression(arg)?; }`
ExpressionList(cw, args, i) ==
  IF i > Len(args) THEN cw
  ELSE Try(Expression(cw, args[i]),
           LAMBDA c1 : ExpressionList(c1, args, i + 1))

\* `for stmt in statements { self.statement(stmt)?; }`
StatementList(cw, statements, i) ==
  IF i > Len(statements) THEN cw
  ELSE Try(Statement(cw, statements[i]),
           LAMBDA c1 : StatementList(c1, statements, i + 1))

\* CompilerWrapper::block_statement
BlockStatement(cw, statement) ==
  Try(StatementList(BeginScope(cw), statement.statements, 1),
      LAMBDA c1 : EndScope(c1))

\* CompilerWrapper::expression_statement
ExpressionStatement(cw, statement) ==
  Try(Expression(cw, statement.expression), LAMBDA c1 : EmitOp(c1, "Pop"))

\* `for token in &function.params { parse_variable(token)?; define_variable }`
RECURSIVE ParamList(_, _, _)
ParamList(cw, params, i) ==
  IF i > Len(params) THEN cw
  ELSE Try(ParseVariable(cw, params[i]),
           LAMBDA c1 : ParamList(DefineVariable(c1, c1.ret), params, i + 1))

\* the operand pairs without the pair of the last upvalue
RECURSIVE EmitUpvaluesButLast(_, _, _)
EmitUpvaluesButLast(cw, upvalues, i) ==
  IF i >= Len(upvalues) THEN cw
  ELSE EmitUpvaluesButLast(
         EmitByte(EmitByte(cw, IF upvalues[i].is_local THEN 1 ELSE 0),
                  upvalues[i].index),
         upvalues, i + 1)

\* `for Upvalue { index, is_local } in compiler.upvalues { emit, emit }`
RECURSIVE EmitUpvalues(_, _, _)
EmitUpvalues(cw, upvalues, i) ==
  IF i > Len(upvalues) THEN cw
  ELSE EmitUpvalues(EmitByte(EmitByte(cw, IF upvalues[i].is_local THEN 1 ELSE 0),
                             upvalues[i].index),
                    upvalues, i + 1)

\* `self.current...function.arity = function.params.len()`
SetArity(cw, arity) ==
  [cw EXCEPT !.compilers[Len(cw.compilers)].function.arity = arity]

\* CompilerWrapper::function up to the body: the new Compiler, its arity,
\* its scope and its parameters
FunctionHead(cw, function) ==
  ParamList(
    BeginScope(
      SetArity(PushCompiler([cw EXCEPT !.current_line = function.name.line],
                            function.name.lexeme),
               Len(function.params))),
    function.params, 1)

\* CompilerWrapper::function after the body: end_compiler, the Closure
\* instruction and its operand pairs
FunctionTail(cw, function) ==
  Then(EndCompiler([cw EXCEPT !.current_line = function.brace.line]),
       LAMBDA ended :
  Then(MakeConstant(ended, FunctionValue(ended.ret.function)), LAMBDA c6 :
       EmitUpvalues(EmitBytes(c6, Op.Closure, c6.ret), ended.ret.upvalues, 1)))

\* CompilerWrapper::function
CompileFunction(cw, function) ==
  Try(FunctionHead(cw, function), LAMBDA c3 :
  Try(StatementList(c3, function.body, 1), LAMBDA c4 :
      FunctionTail(c4, function)))

\* CompilerWrapper::fun_declaration
FunDeclaration(cw, function) ==
  Try(ParseVariable(cw, function.name), LAMBDA global :
  Try(CompileFunction(MarkInitialized(global), function), LAMBDA c2 :
      DefineVariable(c2, global.ret)))

\* CompilerWrapper::for_statement: jump_after_cond is the operand emit_jump
\* returned for JumpIfFalse, jump_to_body the one it returned for Jump
ForStatement(cw, statement) ==
  LET hasInit == statement.initializer.t # "None"
      hasCond == statement.condition.t # "None"
      hasIncr == statement.increment.t # "None"
  IN
  Try(IF hasInit THEN Statement(BeginScope(cw), statement.initializer)
      ELSE BeginScope(cw), LAMBDA before_condition :
  Try(IF hasCond THEN Expression(before_condition, statement.condition)
      ELSE before_condition, LAMBDA c2 :
  Then(IF hasCond THEN EmitJump(c2, "JumpIfFalse") ELSE c2,
       LAMBDA jump_after_cond :
  Then(IF hasCond THEN EmitJump(EmitOp(jump_after_cond, "Pop"), "Jump")
       ELSE jump_after_cond, LAMBDA jump_to_body :
  Try(IF hasIncr THEN Expression(jump_to_body, statement.increment)
      ELSE jump_to_body, LAMBDA c5 :
  Try(IF hasIncr /\ hasCond
      THEN EmitLoop(c5, GetCurrentLen(before_condition)) ELSE c5,
      LAMBDA before_body :
  Try(IF hasCond THEN PatchJump(before_body, jump_to_body.ret)
      ELSE before_body, LAMBDA c7 :
  Try(Statement(c7, statement.body), LAMBDA c8 :
  Try(EmitLoop(c8, IF hasIncr THEN GetCurrentLen(jump_to_body)
                   ELSE IF hasCond THEN GetCurrentLen(before_condition)
                   ELSE GetCurrentLen(before_body)), LAMBDA c9 :
  Try(IF hasCond THEN PatchJump(c9, jump_after_cond.ret) ELSE c9,
      LAMBDA c10 : EndScope(c10)))))))))))

\* CompilerWrapper::if_statement
IfStatement(cw, statement) ==
  Try(Expression(cw, statement.condition), LAMBDA c1 :
  Then(EmitJump(c1, "JumpIfFalse"), LAMBDA jump_to_else :
  Try(Statement(EmitOp(jump_to_else, "Pop"), statement.then_branch),
      LAMBDA c3 :
  Then(EmitJump(c3, "Jump"), LAMBDA jump_from_then :
  Try(PatchJump(jump_from_then, jump_to_else.ret), LAMBDA c5 :
  Try(IF statement.else_branch.t # "None"
      THEN Statement(EmitOp(c5, "Pop"), statement.else_branch)
      ELSE EmitOp(c5, "Pop"),
      LAMBDA c7 : PatchJump(c7, jump_from_then.ret)))))))

\* CompilerWrapper::print_statement
PrintStatement(cw, statement) ==
  Try(Expression([cw EXCEPT !.current_line = statement.keyword.line],
                 statement.expression),
      LAMBDA c1 : EmitOp(c1, "PrintOp"))

\* CompilerWrapper::return_statement
ReturnStatement(cw, statement) ==
  Try(IF statement.value.t # "None"
      THEN Expression([cw EXCEPT !.current_line = statement.keyword.line],
                      statement.value)
      ELSE EmitOp([cw EXCEPT !.current_line = statement.keyword.line], "Nil"),
      LAMBDA c1 : EmitOp(c1, "Return"))

\* CompilerWrapper::while_statement
WhileStatement(cw, statement) ==
  Try(Expression(cw, statement.condition), LAMBDA c1 :
  Then(EmitJump(c1, "JumpIfFalse"), LAMBDA end_jump :
  Try(Statement(EmitOp(end_jump, "Pop"), statement.body), LAMBDA c3 :
  Try(EmitLoop(c3, GetCurrentLen(cw)), LAMBDA c4 :
  Try(PatchJump(c4, end_jump.ret), LAMBDA c5 : EmitOp(c5, "Pop"))))))

\* CompilerWrapper::var_declaration
VarDeclaration(cw, statement) ==
  Try(ParseVariable(cw, statement.name), LAMBDA global :
  Try(IF statement.initializer.t # "None"
      THEN Expression(global, statement.initializer)
      ELSE EmitOp(global, "Nil"),
      LAMBDA c2 : DefineVariable(c2, global.ret)))

\* CompilerWrapper::statement
Statement(cw, statement) ==
  CASE statement.t = "Block" -> BlockStatement(cw, statement)
    [] statement.t = "Expression" -> ExpressionStatement(cw, statement)
    [] statement.t = "For" -> ForStatement(cw, statement)
    [] statement.t = "Function" -> FunDeclaration(cw, statement)
    [] statement.t = "If" -> IfStatement(cw, statement)
    [] statement.t = "PrintStmt" -> PrintStatement(cw, statement)
    [] statement.t = "Return" -> ReturnStatement(cw, statement)
    [] statement.t = "While" -> WhileStatement(cw, statement)
    [] statement.t = "Var" -> VarDeclaration(cw, statement)

\* the loop of CompilerWrapper::compile: every statement is compiled, an Err
\* is remembered; a panic ends the process
RECURSIVE CompileLoop(_, _, _, _)
CompileLoop(cw, statements, i, error) ==
  IF i > Len(statements) \/ cw.panic THEN [cw EXCEPT !.ok = ~error /\ ~cw.panic]
  ELSE Then(Statement([cw EXCEPT !.ok = TRUE], statements[i]), LAMBDA c1 :
            CompileLoop(c1, statements, i + 1, error \/ ~c1.ok))

\* CompilerWrapper::compile after CompilerWrapper::new: ret is the Function
Compile(chunks, strings, statements) ==
  Try(CompileLoop(CompilerWrapperNew(chunks, strings), statements, 1, FALSE),
      LAMBDA c1 : Then(EndCompiler(c1), LAMBDA c2 :
                       [c2 EXCEPT !.ret = c2.ret.function]))

(***************************************************************************)
(* The parser (parser.rs).  A parser is the record of the struct's fields  *)
(* the methods read, with the Result of the last method in ok and its      *)
(* value in ret.  function_kind and loop_kind are written and never read   *)
(* (break and continue are commented out): they are left out.              *)
(***************************************************************************)
RECURSIVE ParseDeclaration(_)
RECURSIVE ParseStatement(_)
RECURSIVE ParseBlockLoop(_, _)
RECURSIVE ParseExpression(_)
RECURSIVE ParseAssignment(_)
RECURSIVE ParseAnd(_)
RECURSIVE ParseAndLoop(_)
RECURSIVE ParseOrLoop(_)
RECURSIVE ParseEquality(_)
RECURSIVE ParseEqualityLoop(_)
RECURSIVE ParseComparisonLoop(_)
RECURSIVE ParseTermLoop(_)
RECURSIVE ParseFactorLoop(_)
RECURSIVE ParseUnary(_)
RECURSIVE ParseParams(_, _)
RECURSIVE ParseArgs(_, _)
RECURSIVE SynchronizeLoop(_)
RECURSIVE ParseLoop(_)

\* Parser::new: `tokens.last().unwrap()` panics on an empty vector, and no
\* Parser is made
ParserNew(tokens) ==
  [tokens |-> tokens, current |-> 0,
   last_line |-> IF Len(tokens) = 0 THEN 0 ELSE tokens[Len(tokens)].line,
   had_error |-> FALSE, panic_mode |-> FALSE,
   errs |-> <<>>, statements |-> <<>>, ok |-> TRUE, ret |-> None,
   panic |-> Len(tokens) = 0]

\* Ok(ret) and Err(()) returned by a method
ParseOk(p, ret) == [p EXCEPT !.ok = TRUE, !.ret = ret]
ParseErr(p) == [p EXCEPT !.ok = FALSE]

\* Parser::is_at_end
IsAtEnd(p) == p.current >= Len(p.tokens)

\* Parser::peek
ParserPeek(p) == IF IsAtEnd(p) THEN None ELSE p.tokens[p.current + 1]

\* Parser::previous
Previous(p) == p.tokens[p.current]

\* Parser::advance: the parser after it; the token returned is Previous
Advance(p) == IF IsAtEnd(p) THEN p ELSE [p EXCEPT !.current = @ + 1]

\* Parser::check
Check(p, desired) == ~IsAtEnd(p) /\ ParserPeek(p).kind = desired

\* Parser::error
ParserError(p, token, message) ==
  IF p.panic_mode THEN p
  ELSE [p EXCEPT
          !.errs = Append(@,
             "[line "
             \o ToString(IF token = None THEN p.last_line ELSE token.line)
             \o "] Error"
             \o (IF token = None THEN " at end"
                 ELSE IF token.kind # "Error"
                 THEN " at '" \o token.lexeme \o "'"
                 ELSE "")
             \o ": " \o message),
          !.panic_mode = TRUE,
          !.had_error = TRUE]

\* Parser::consume: ret is the token consumed
Consume(p, kind, message) ==
  IF Check(p, kind) THEN ParseOk(Advance(p), Previous(Advance(p)))
  ELSE ParseErr(ParserError(p, ParserPeek(p), message))

\* the loop over the parameters of Parser::function: ret is the list
ParseParams(p, params) ==
  Try(Consume(IF Len(params) >= 255
              THEN ParserError(p, ParserPeek(p),
                               "Can't have more than 255 parameters.")
              ELSE p,
              "Identifier", "Expect parameter name."), LAMBDA name :
      IF Check(name, "Comma")
      THEN ParseParams(Advance(name), Append(params, name.ret))
      ELSE ParseOk(name, Append(params, name.ret)))

\* Parser::block: ret is the list of statements
ParseBlockLoop(p, statements) ==
  IF ~IsAtEnd(p) /\ ~Check(p, "RightBrace")
  THEN Try(ParseDeclaration(p), LAMBDA d :
           ParseBlockLoop(d, Append(statements, d.ret)))
  ELSE Try(Consume(p, "RightBrace", "Expect '}' after block."), LAMBDA c :
           ParseOk(c, statements))

\* Parser::function
ParseFunction(p) ==
  Try(Consume(p, "Identifier", "Expect function name."), LAMBDA name :
  Try(Consume(name, "LeftParen", "Expect '(' after function name"),
      LAMBDA c2 :
  Try(IF ~Check(c2, "RightParen") THEN ParseParams(c2, <<>>)
      ELSE ParseOk(c2, <<>>), LAMBDA params :
  Try(Consume(params, "RightParen", "Expect ')' after parameters."),
      LAMBDA c4 :
  Try(Consume(c4, "LeftBrace", "Expect '{' before function body."),
      LAMBDA c5 :
  Try(ParseBlockLoop(c5, <<>>), LAMBDA body :
      ParseOk(body, Function(name.ret, params.ret, body.ret,
                             Previous(body)))))))))

\* Parser::var_declaration
ParseVarDeclaration(p) ==
  Try(Consume(p, "Identifier", "Expect variable name."), LAMBDA name :
  Try(IF Check(name, "Equal") THEN ParseExpression(Advance(name))
      ELSE ParseOk(name, None), LAMBDA initializer :
  Try(Consume(initializer, "Semicolon",
              "Expect ';' after variable declaration."), LAMBDA c3 :
      ParseOk(c3, Var(name.ret, initializer.ret)))))

\* Parser::expression_statement
ParseExpressionStatement(p) ==
  Try(ParseExpression(p), LAMBDA expr :
  Try(Consume(expr, "Semicolon", "Expect ';' after expression."), LAMBDA c2 :
      ParseOk(c2, ExpressionStmt(expr.ret))))

\* Parser::for_statement
ParseFor(p) ==
  Try(Consume(p, "LeftParen", "Expect '(' after 'for'."), LAMBDA c1 :
  Try(IF Check(c1, "Semicolon") THEN ParseOk(Advance(c1), None)
      ELSE IF Check(c1, "Var") THEN ParseVarDeclaration(Advance(c1))
      ELSE ParseExpressionStatement(c1), LAMBDA initializer :
  Try(IF ~Check(initializer, "Semicolon") THEN ParseExpression(initializer)
      ELSE ParseOk(initializer, None), LAMBDA condition :
  Try(Consume(condition, "Semicolon", "Expect ';' after loop condition."),
      LAMBDA c4 :
  Try(IF ~Check(c4, "RightParen") THEN ParseExpression(c4)
      ELSE ParseOk(c4, None), LAMBDA increment :
  Try(Consume(increment, "RightParen", "Expect ')' after for clauses"),
      LAMBDA c6 :
  Try(ParseStatement(c6), LAMBDA body :
      ParseOk(body, For(initializer.ret, condition.ret, increment.ret,
                        body.ret)))))))))

\* Parser::if_statement
ParseIf(p) ==
  Try(Consume(p, "LeftParen", "Expect '(' after 'if'."), LAMBDA c1 :
  Try(ParseExpression(c1), LAMBDA condition :
  Try(Consume(condition, "RightParen", "Expect ')' after condition."),
      LAMBDA c3 :
  Try(ParseStatement(c3), LAMBDA then_branch :
  Try(IF Check(then_branch, "Else") THEN ParseStatement(Advance(then_branch))
      ELSE ParseOk(then_branch, None), LAMBDA else_branch :
      ParseOk(else_branch, If(condition.ret, then_branch.ret,
                              else_branch.ret)))))))

\* Parser::print_statement, `print` being the previous token
ParsePrint(p) ==
  Try(ParseExpression(p), LAMBDA expr :
  Try(Consume(expr, "Semicolon", "Expect ';' after value."), LAMBDA c2 :
      ParseOk(c2, PrintStmt(Previous(p), expr.ret))))

\* Parser::return_statement, `return` being the previous token
ParseReturn(p) ==
  Try(IF ~Check(p, "Semicolon") THEN ParseExpression(p)
      ELSE ParseOk(p, None), LAMBDA value :
  Try(Consume(value, "Semicolon", "Expect ';' after return value."),
      LAMBDA c2 : ParseOk(c2, Return(Previous(p), value.ret))))

\* Parser::while_statement
ParseWhile(p) ==
  Try(Consume(p, "LeftParen", "Expect '(' after 'while'."), LAMBDA c1 :
  Try(ParseExpression(c1), LAMBDA condition :
  Try(Consume(condition, "RightParen", "Expect ')' after condition."),
      LAMBDA c3 :
  Try(ParseStatement(c3), LAMBDA body :
      ParseOk(body, While(condition.ret, body.ret))))))

\* Parser::block_statement
ParseBlockStatement(p) ==
  Try(ParseBlockLoop(p, <<>>), LAMBDA b : ParseOk(b, Block(b.ret)))

\* Parser::statement
ParseStatement(p) ==
  IF Check(p, "For") THEN ParseFor(Advance(p))
  ELSE IF Check(p, "If") THEN ParseIf(Advance(p))
  ELSE IF Check(p, "Print") THEN ParsePrint(Advance(p))
  ELSE IF Check(p, "Return") THEN ParseReturn(Advance(p))
  ELSE IF Check(p, "While") THEN ParseWhile(Advance(p))
  ELSE IF Check(p, "LeftBrace") THEN ParseBlockStatement(Advance(p))
  ELSE ParseExpressionStatement(p)

\* Parser::declaration
ParseDeclaration(p) ==
  IF Check(p, "Fun") THEN ParseFunction(Advance(p))
  ELSE IF Check(p, "Var") THEN ParseVarDeclaration(Advance(p))
  ELSE ParseStatement(p)

\* Parser::primary
ParsePrimary(p) ==
  IF ~IsAtEnd(p)
     /\ ParserPeek(p).kind \in {"False", "True", "Nil", "Number", "String"}
  THEN ParseOk(Advance(p), Literal(ParserPeek(p)))
  ELSE IF Check(p, "Identifier")
  THEN ParseOk(Advance(p), Variable(ParserPeek(p)))
  ELSE IF Check(p, "LeftParen")
  THEN Try(ParseExpression(Advance(p)), LAMBDA expr :
       Try(Consume(expr, "RightParen", "Expect ')' after expression"),
           LAMBDA c2 : ParseOk(c2, Grouping(expr.ret))))
  ELSE ParseErr(ParserError(p, ParserPeek(p), "Expected expression."))

\* the loop over the arguments of Parser::finish_call: ret is the list
ParseArgs(p, args) ==
  Try(ParseExpression(IF Len(args) >= 255
                      THEN ParserError(p, ParserPeek(p),
                                       "Can't have more than 255 arguments.")
                      ELSE p), LAMBDA arg :
      IF Check(arg, "Comma")
      THEN ParseArgs(Advance(arg), Append(args, arg.ret))
      ELSE ParseOk(arg, Append(args, arg.ret)))

\* Parser::finish_call
ParseFinishCall(p, callee) ==
  Try(IF ~Check(p, "RightParen") THEN ParseArgs(p, <<>>)
      ELSE ParseOk(p, <<>>), LAMBDA args :
  Try(Consume(args, "RightParen", "Expect ')' after args."), LAMBDA paren :
      ParseOk(paren, Call(callee, args.ret))))

\* Parser::call
ParseCall(p) ==
  Try(ParsePrimary(p), LAMBDA expr :
      IF Check(expr, "LeftParen")
      THEN ParseFinishCall(Advance(expr), expr.ret)
      ELSE expr)

\* Parser::unary
ParseUnary(p) ==
  IF Check(p, "Bang") \/ Check(p, "Minus")
  THEN Try(ParseUnary(Advance(p)), LAMBDA right :
           ParseOk(right, Unary(ParserPeek(p), right.ret)))
  ELSE ParseCall(p)

\* the while loop of Parser::factor: p.ret is expr
ParseFactorLoop(p) ==
  IF Check(p, "Star") \/ Check(p, "Slash")
  THEN Try(ParseUnary(Advance(p)), LAMBDA right :
           ParseFactorLoop(ParseOk(right,
               Binary(p.ret, ParserPeek(p), right.ret))))
  ELSE p

\* Parser::factor
ParseFactor(p) == Try(ParseUnary(p), LAMBDA expr : ParseFactorLoop(expr))

\* the while loop of Parser::term: p.ret is expr
ParseTermLoop(p) ==
  IF Check(p, "Plus") \/ Check(p, "Minus")
  THEN Try(ParseFactor(Advance(p)), LAMBDA right :
           ParseTermLoop(ParseOk(right,
               Binary(p.ret, ParserPeek(p), right.ret))))
  ELSE p

\* Parser::term
ParseTerm(p) == Try(ParseFactor(p), LAMBDA expr : ParseTermLoop(expr))

\* the while loop of Parser::comparison: p.ret is expr
ParseComparisonLoop(p) ==
  IF Check(p, "Greater") \/ Check(p, "GreaterEqual")
     \/ Check(p, "Less") \/ Check(p, "LessEqual")
  THEN Try(ParseTerm(Advance(p)), LAMBDA right :
           ParseComparisonLoop(ParseOk(right,
               Binary(p.ret, ParserPeek(p), right.ret))))
  ELSE p

\* Parser::comparison
ParseComparison(p) ==
  Try(ParseTerm(p), LAMBDA expr : ParseComparisonLoop(expr))

\* the while loop of Parser::equality: p.ret is expr
ParseEqualityLoop(p) ==
  IF Check(p, "EqualEqual") \/ Check(p, "BangEqual")
  THEN Try(ParseEquality(Advance(p)), LAMBDA right :
           ParseEqualityLoop(ParseOk(right,
               Binary(p.ret, ParserPeek(p), right.ret))))
  ELSE p

\* Parser::equality
ParseEquality(p) ==
  Try(ParseComparison(p), LAMBDA expr : ParseEqualityLoop(expr))

\* the while loop of Parser::and: p.ret is expr
ParseAndLoop(p) ==
  IF Check(p, "And")
  THEN Try(ParseAnd(Advance(p)), LAMBDA right :
           ParseAndLoop(ParseOk(right,
               Logical(p.ret, ParserPeek(p), right.ret))))
  ELSE p

\* Parser::and
ParseAnd(p) == Try(ParseEquality(p), LAMBDA expr : ParseAndLoop(expr))

\* the while loop of Parser::or: p.ret is expr
ParseOrLoop(p) ==
  IF Check(p, "Or")
  THEN Try(ParseAnd(Advance(p)), LAMBDA right :
           ParseOrLoop(ParseOk(right,
               Logical(p.ret, ParserPeek(p), right.ret))))
  ELSE p

\* Parser::or
ParseOr(p) == Try(ParseAnd(p), LAMBDA expr : ParseOrLoop(expr))

\* Parser::assignment
ParseAssignment(p) ==
  Try(ParseOr(p), LAMBDA expr :
      IF Check(expr, "Equal")
      THEN Try(ParseAssignment(Advance(expr)), LAMBDA value :
               IF expr.ret.t = "Variable"
               THEN ParseOk(value, Assign(expr.ret.name, value.ret))
               ELSE ParseOk(ParserError(value, ParserPeek(expr),
                                        "Invalid assignment target."),
                            expr.ret))
      ELSE expr)

\* Parser::expression
ParseExpression(p) == ParseAssignment(p)

\* the while loop of Parser::synchronize
SynchronizeLoop(p) ==
  IF IsAtEnd(p) THEN p
  ELSE IF Previous(p).kind = "Semicolon" THEN p
  ELSE IF ParserPeek(p).kind \in {"Class", "Fun", "Var", "For", "If",
                                  "While", "Print", "Return"} THEN p
  ELSE SynchronizeLoop(Advance(p))

\* synchronize that advances first only when no token has been consumed
SynchronizeAtHand(p) ==
  IF p.current = 0 THEN SynchronizeLoop(Advance(p)) ELSE SynchronizeLoop(p)

\* Parser::synchronize
Synchronize(p) == SynchronizeLoop(Advance(p))

\* one iteration of the loop of parse_tokens
ParseIteration(p) ==
  Then(ParseDeclaration(p), LAMBDA d :
       IF d.ok THEN [d EXCEPT !.statements = Append(@, d.ret)]
       ELSE Synchronize(d))

\* the loop of parse_tokens
ParseLoop(p) == IF IsAtEnd(p) THEN p ELSE ParseLoop(ParseIteration(p))

\* parse_tokens with a result that forgets the errors reported
ParseResultLenient(p) == [t |-> "Some", statements |-> p.statements]

\* what parse_tokens returns from the parser its loop left
ParseResult(p) ==
  IF p.had_error THEN None ELSE [t |-> "Some", statements |-> p.statements]

\* parse_tokens: the parser after the loop (its result is ParseResult)
ParseTokens(tokens) ==
  IF ParserNew(tokens).panic THEN ParserNew(tokens)
  ELSE ParseLoop(ParserNew(tokens))

\* compile (compiler.rs): a source is modelled by the tokens scan_tokens
\* makes of it
CompileSource(chunks, strings, tokens) ==
  Then(ParseTokens(tokens), LAMBDA p :
       IF p.panic
       THEN [ok |-> FALSE, panic |-> TRUE, errs |-> <<>>,
             ret |-> None, chunks |-> chunks, strings |-> strings]
       ELSE IF ParseResult(p) = None
       THEN [ok |-> FALSE, panic |-> FALSE, errs |-> p.errs, ret |-> None,
             chunks |-> chunks, strings |-> strings]
       ELSE Compile(chunks, strings, ParseResult(p).statements))

(***************************************************************************)
(* The virtual machine.                                                    *)
(*                                                                         *)
(* An upvalue cell (value.rs Upvalue) lives in the heap `cells` and is     *)
(* named by its index there, 0 being None.  Its location is the index of   *)
(* the stack slot it points at, or Closed when it points at its own        *)
(* `closed` field.                                                         *)
(***************************************************************************)
VARIABLES
  globals,        \* VM.globals: name -> Value
  stack,          \* VM.stack: [0..STACK_MAX-1 -> Value]
  stack_count,    \* VM.stack_count
  frames,         \* VM.frames: [0..CALL_FRAME_MAX-1 -> CallFrame]
  frame_count,    \* VM.frame_count
  open_upvalues,  \* VM.open_upvalues: head of the open list (0: None)
  cells,          \* the Rc<RefCell<Upvalue>> cells allocated so far
  chunks,         \* the Rc<Chunk> chunks allocated so far
  strings,        \* the string interner
  out,            \* lines written to stdout
  err,            \* lines written to stderr
  status,         \* "idle", "running", or how the last interpret call ended
  interprets,     \* interpret calls made so far
  program,        \* the source of the last interpret call
  cw,             \* a CompilerWrapper at work (None: no compile in progress)
  walk,           \* where that compile stands in the syntax tree
  legacy,         \* the compiler of the first crate, src/src (None: absent)
  parser,         \* a parse_tokens call at work (None: no parse in progress)
  functions       \* the function interner of function.rs (None: not in use)

vmvars == <<globals, stack, stack_count, frames, frame_count, open_upvalues,
            cells, chunks, strings, out, err, status, interprets, program>>
sidevars == <<cw, walk, legacy, parser, functions>>
vars == <<vmvars, sidevars>>

Closed == -1

\* CALL_FRAME_DEFAULT, CallFrame::reset
CallFrameDefault == [closure |-> None, ip |-> 0, starts_at |-> 0]

\* Upvalue::new
UpvalueNew(location, next) == [location |-> location, next |-> next, closed |-> Nil]

\* the machine as one record, for the operators below
VMState ==
  [globals |-> globals, stack |-> stack, stack_count |-> stack_count,
   frames |-> frames, frame_count |-> frame_count,
   open_upvalues |-> open_upvalues, cells |-> cells, strings |-> strings,
   out |-> out, err |-> err, status |-> status]

\* a panic of the process (index out of bounds, arithmetic overflow, unwrap)
VMPanic(vm) == [vm EXCEPT !.status = "Panic"]

\* a panic with the message the runtime writes to stderr
PanicWith(vm, message) == VMPanic([vm EXCEPT !.err = Append(@, message)])
\* `self.stack[self.stack_count]` with stack_count = STACK_MAX
StackIndexPanic == "index out of bounds: the len is 256 but the index is 256"
\* `self.frames[self.frame_count]` with frame_count = CALL_FRAME_MAX
FramesIndexPanic == "index out of bounds: the len is 64 but the index is 64"

\* Err(InterpretError::InternalError(message)) leaving run
InternalError(vm, message) ==
  [vm EXCEPT !.status = "InternalError", !.err = Append(@, message)]

\* reset_stack without its effect
ResetStackKeep(vm) == vm

\* VM::reset_stack
ResetStack(vm) ==
  [vm EXCEPT !.stack_count = 0,
             !.frames = [i \in 0..(CALL_FRAME_MAX - 1) |-> CallFrameDefault],
             !.frame_count = 0]

\* the trace line runtime_error writes for frame i
TraceLine(vm, i) ==
  LET function == vm.frames[i].closure.function
      line == chunks[function.chunk].lines[vm.frames[i].ip]
  IN "[line " \o ToString(line) \o "] in " \o
     (IF GetName(vm.strings, function) = "<script>" THEN "script"
      ELSE GetName(vm.strings, function) \o "()")

\* frame i has a closure and a line at ip - 1
TraceLineOk(vm, i) ==
  /\ vm.frames[i].closure # None
  /\ vm.frames[i].ip >= 1
  /\ vm.frames[i].ip <= Len(chunks[vm.frames[i].closure.function.chunk].lines)

RECURSIVE TraceLines(_, _)
TraceLines(vm, i) ==
  IF i < 0 THEN <<>> ELSE <<TraceLine(vm, i)>> \o TraceLines(vm, i - 1)

\* VM::runtime_error
RuntimeError(vm, message) ==
  IF \E i \in 0..(vm.frame_count - 1) : ~TraceLineOk(vm, i)
  THEN VMPanic([vm EXCEPT !.err = Append(@, message)])
  ELSE [ResetStack(vm) EXCEPT
          !.err = vm.err \o <<message>> \o TraceLines(vm, vm.frame_count - 1),
          !.status = "RuntimeError"]

\* VM::push
Push(vm, value) ==
  IF vm.stack_count >= STACK_MAX THEN PanicWith(vm, StackIndexPanic)
  ELSE [vm EXCEPT !.stack[vm.stack_count] = value, !.stack_count = @ + 1]

\* VM::pop: the machine after it; the value popped is PopValue
Pop(vm) ==
  IF vm.stack_count = 0 THEN InternalError(vm, "Can't pop on empty stack.")
  ELSE [vm EXCEPT !.stack_count = @ - 1, !.stack[vm.stack_count - 1] = Nil]

PopValue(vm) == vm.stack[vm.stack_count - 1]

\* VM::peek: the index computed is in range
PeekOk(vm, index) == vm.stack_count - 1 - index >= 0

Peek(vm, index) == vm.stack[vm.stack_count - 1 - index]

\* VM::current_frame
CurrentFrame(vm) == vm.frames[vm.frame_count - 1]

\* VM::current_chunk
CurrentChunkVM(vm) == chunks[CurrentFrame(vm).closure.function.chunk]

\* VM::read_u8: [vm, ok, byte]
ReadU8(vm) ==
  LET ip == CurrentFrame(vm).ip
      code == CurrentChunkVM(vm).code
  IN [vm |-> [vm EXCEPT !.frames[vm.frame_count - 1].ip = ip + 1],
      ok |-> ip < Len(code),
      byte |-> IF ip < Len(code) THEN code[ip + 1] ELSE 0]

\* VM::read_u16: [vm, ok, value]
ReadU16(vm) ==
  LET b1 == ReadU8(vm)
      b2 == ReadU8(b1.vm)
  IN IF ~b1.ok THEN [vm |-> b1.vm, ok |-> FALSE, value |-> 0]
     ELSE [vm |-> b2.vm, ok |-> b2.ok, value |-> b1.byte * 256 + b2.byte]

\* VM::read_constant: [vm, ok, msg, value]
ReadConstant(vm) ==
  LET b == ReadU8(vm)
      constants == CurrentChunkVM(vm).constants
  IN IF ~b.ok
     THEN [vm |-> b.vm, ok |-> FALSE, msg |-> "Failed to read byte.", value |-> Nil]
     ELSE IF b.byte >= Len(constants)
     THEN [vm |-> b.vm, ok |-> FALSE, msg |-> "Failed to read constant.",
           value |-> Nil]
     ELSE [vm |-> b.vm, ok |-> TRUE, msg |-> "", value |-> constants[b.byte + 1]]

\* VM::read_string: [vm, ok, msg, value], value the handle
ReadString(vm) ==
  LET c == ReadConstant(vm) IN
  IF c.ok /\ c.value.k # "String"
  THEN [vm |-> c.vm, ok |-> FALSE, msg |-> "Value was not a string.", value |-> 0]
  ELSE [vm |-> c.vm, ok |-> c.ok, msg |-> c.msg,
        value |-> IF c.ok THEN c.value.v ELSE 0]

\* VM::call with the frame based on the first argument, not on the callee
VMCallAboveCallee(vm, closure, arg_count) ==
  IF arg_count # closure.function.arity
  THEN RuntimeError(vm, "Expected " \o ToString(closure.function.arity)
                        \o " arguments but got " \o ToString(arg_count) \o ".")
  ELSE IF vm.frame_count >= CALL_FRAME_MAX
       THEN PanicWith(vm, FramesIndexPanic)
  ELSE [vm EXCEPT
          !.frames[vm.frame_count] =
             [closure |-> closure, ip |-> 0,
              starts_at |-> vm.stack_count - arg_count],
          !.frame_count = @ + 1]

\* VM::call
VMCall(vm, closure, arg_count) ==
  IF arg_count # closure.function.arity
  THEN RuntimeError(vm, "Expected " \o ToString(closure.function.arity)
                        \o " arguments but got " \o ToString(arg_count) \o ".")
  ELSE IF vm.stack_count - arg_count - 1 < 0 THEN VMPanic(vm)
  ELSE IF vm.frame_count >= CALL_FRAME_MAX
       THEN PanicWith(vm, FramesIndexPanic)
  ELSE LET v1 == [vm EXCEPT
                    !.frames[vm.frame_count] =
                       [closure |-> closure, ip |-> 0,
                        starts_at |-> vm.stack_count - arg_count - 1],
                    !.frame_count = @ + 1]
       IN IF v1.frame_count = STACK_MAX THEN RuntimeError(v1, "Stack overflow.")
          ELSE v1

\* VM::call_native, result being what the host function returned
\* the slice call_native hands to the host function: `&self.stack[arg_start..]`
NativeArgs(vm, arg_count) ==
  LET arg_start == vm.stack_count - arg_count - 1
  IN [i \in 1..(STACK_MAX - arg_start) |-> vm.stack[arg_start + i - 1]]

CallNative(vm, result, arg_count) ==
  IF vm.stack_count - arg_count - 1 < 0 THEN VMPanic(vm)
  ELSE [vm EXCEPT !.stack_count = @ - arg_count,
                  !.stack[vm.stack_count - arg_count - 1] = result]

\* VM::call_value
CallValue(vm, callee, arg_count, result) ==
  CASE callee.k = "Closure" -> VMCall(vm, callee.closure, arg_count)
    [] callee.k = "Native" -> CallNative(vm, result, arg_count)
    [] OTHER -> RuntimeError(vm, "Can only call functions and classes.")

\* the while loop of capture_upvalue: [previous, current]
RECURSIVE WalkOpen(_, _, _, _)
WalkOpen(cs, previous, current, location) ==
  IF current # 0 /\ cs[current].location > location
  THEN WalkOpen(cs, current, cs[current].next, location)
  ELSE [previous |-> previous, current |-> current]

\* capture_upvalue without the search of the open list: always a new cell
CaptureUpvalueFresh(vm, location) ==
  LET created == Len(vm.cells) + 1 IN
  [vm |-> [vm EXCEPT !.cells = Append(@, UpvalueNew(location, vm.open_upvalues)),
                     !.open_upvalues = created],
   cell |-> created]

\* VM::capture_upvalue: [vm, cell]
CaptureUpvalue(vm, location) ==
  LET w == WalkOpen(vm.cells, 0, vm.open_upvalues, location) IN
  IF w.current # 0 /\ vm.cells[w.current].location = location
  THEN [vm |-> vm, cell |-> w.current]
  ELSE LET created == Len(vm.cells) + 1
           cs == Append(vm.cells, UpvalueNew(location, w.current))
       IN [vm |-> IF w.previous = 0
                  THEN [vm EXCEPT !.cells = cs, !.open_upvalues = created]
                  ELSE [vm EXCEPT !.cells = [cs EXCEPT ![w.previous].next = created]],
           cell |-> created]

\* Upvalue::close without the copy of the slot's value: `closed` stays
UpvalueCloseStale(vm, cell) ==
  [vm EXCEPT !.cells[cell] =
     [location |-> Closed, next |-> 0, closed |-> vm.cells[cell].closed]]

\* Upvalue::close
UpvalueClose(vm, cell) ==
  [vm EXCEPT !.cells[cell] =
     [location |-> Closed, next |-> 0, closed |-> vm.stack[vm.cells[cell].location]]]

\* Upvalue::as_value
AsValue(vm, cell) ==
  IF vm.cells[cell].location = Closed THEN vm.cells[cell].closed
  ELSE vm.stack[vm.cells[cell].location]

\* close_upvalues that stops at the cell of `last` itself
RECURSIVE CloseUpvaluesAbove(_, _)
CloseUpvaluesAbove(vm, last) ==
  IF vm.open_upvalues # 0 /\ vm.cells[vm.open_upvalues].location > last
  THEN LET head == vm.open_upvalues
           next == vm.cells[head].next
       IN CloseUpvaluesAbove([UpvalueClose(vm, head) EXCEPT
                                !.open_upvalues = next], last)
  ELSE vm

\* VM::close_upvalues
RECURSIVE CloseUpvalues(_, _)
CloseUpvalues(vm, last) ==
  IF vm.open_upvalues # 0 /\ vm.cells[vm.open_upvalues].location >= last
  THEN LET head == vm.open_upvalues
           next == vm.cells[head].next
       IN CloseUpvalues([UpvalueClose(vm, head) EXCEPT !.open_upvalues = next], last)
  ELSE vm

(***************************************************************************)
(* The arms of the match in VM::run.  Each takes the machine after the     *)
(* opcode was read and gives the machine after the arm.                    *)
(***************************************************************************)
ReadFailed(vm) == InternalError(vm, "Failed to read byte.")

\* peek on an index below the stack: `stack_count - 1 - index` overflows
\* (a panic with overflow checks; without them get() gives None and peek Err)
PeekFailed(vm) == VMPanic(vm)

DoConstant(vm) ==
  LET c == ReadConstant(vm) IN
  IF ~c.ok THEN InternalError(c.vm, c.msg) ELSE Push(c.vm, c.value)

DoNil(vm) == Push(vm, Nil)
DoTrue(vm) == Push(vm, Bool(TRUE))
DoFalse(vm) == Push(vm, Bool(FALSE))
DoPop(vm) == Pop(vm)

DoGetLocal(vm) ==
  LET b == ReadU8(vm)
      offset == CurrentFrame(vm).starts_at
  IN IF ~b.ok THEN ReadFailed(b.vm)
     ELSE IF b.byte + offset >= STACK_MAX THEN VMPanic(b.vm)
     ELSE Push(b.vm, b.vm.stack[b.byte + offset])

DoSetLocal(vm) ==
  LET b == ReadU8(vm)
      offset == CurrentFrame(vm).starts_at
  IN IF ~b.ok THEN ReadFailed(b.vm)
     ELSE IF ~PeekOk(b.vm, 0) THEN PeekFailed(b.vm)
     ELSE IF b.byte + offset >= STACK_MAX THEN VMPanic(b.vm)
     ELSE [b.vm EXCEPT !.stack[b.byte + offset] = Peek(b.vm, 0)]

DoGetGlobal(vm) ==
  LET r == ReadString(vm)
      name == AsStr(vm.strings, r.value)
  IN IF ~r.ok THEN InternalError(r.vm, r.msg)
     ELSE IF name \in DOMAIN r.vm.globals THEN Push(r.vm, r.vm.globals[name])
     ELSE RuntimeError(r.vm, "Undefined variable '" \o name \o "'.")

\* HashMap::insert
MapInsert(map, key, value) ==
  [n \in DOMAIN map \cup {key} |-> IF n = key THEN value ELSE map[n]]

DoDefineGlobal(vm) ==
  LET r == ReadString(vm)
      name == AsStr(vm.strings, r.value)
      v1 == Pop(r.vm)
  IN IF ~r.ok THEN InternalError(r.vm, r.msg)
     ELSE IF v1.status # "running" THEN v1
     ELSE [v1 EXCEPT !.globals = MapInsert(@, name, PopValue(r.vm))]

\* HashMap::remove without its effect
MapKeep(map, key) == map

\* HashMap::remove
MapRemove(map, key) == [n \in DOMAIN map \ {key} |-> map[n]]

\* the arm inserts first; a key that was absent is removed again
DoSetGlobal(vm) ==
  LET r == ReadString(vm)
      name == AsStr(vm.strings, r.value)
  IN IF ~r.ok THEN InternalError(r.vm, r.msg)
     ELSE IF ~PeekOk(r.vm, 0) THEN PeekFailed(r.vm)
     ELSE IF name \in DOMAIN r.vm.globals
     THEN [r.vm EXCEPT !.globals = MapInsert(@, name, Peek(r.vm, 0))]
     ELSE RuntimeError(
            [r.vm EXCEPT !.globals =
               MapRemove(MapInsert(@, name, Peek(r.vm, 0)), name)],
            "Undefined variable '" \o name \o "'.")

DoGetUpvalue(vm) ==
  LET b == ReadU8(vm)
      upvalues == CurrentFrame(vm).closure.upvalues
  IN IF ~b.ok THEN ReadFailed(b.vm)
     ELSE IF b.byte >= Len(upvalues) THEN VMPanic(b.vm)
     ELSE Push(b.vm, AsValue(b.vm, upvalues[b.byte + 1]))

\* the arm assigns the cell's `closed` field, whatever its location
DoSetUpvalue(vm) ==
  LET b == ReadU8(vm)
      upvalues == CurrentFrame(vm).closure.upvalues
  IN IF ~b.ok THEN ReadFailed(b.vm)
     ELSE IF ~PeekOk(b.vm, 0) THEN PeekFailed(b.vm)
     ELSE IF b.byte >= Len(upvalues) THEN VMPanic(b.vm)
     ELSE [b.vm EXCEPT !.cells[upvalues[b.byte + 1]].closed = Peek(b.vm, 0)]

\* pop, pop, push(value)
PopPopPush(vm, value) ==
  LET v1 == Pop(vm)
      v2 == Pop(v1)
  IN IF v1.status # "running" THEN v1
     ELSE IF v2.status # "running" THEN v2
     ELSE Push(v2, value)

DoEqual(vm) ==
  IF vm.stack_count = 0 THEN Pop(vm)
  ELSE IF vm.stack_count = 1 THEN Pop(Pop(vm))
  ELSE PopPopPush(vm, Bool(ValueEq(Peek(vm, 1), Peek(vm, 0))))

\* the arithmetic of binary_op!; a quotient is exact on the numbers the
\* programs of the model divide
Arith(op, a, b) ==
  CASE op = "Greater" -> Bool(a > b)
    [] op = "Less" -> Bool(a < b)
    [] op = "Subtract" -> Number(a - b)
    [] op = "Multiply" -> Number(a * b)
    [] op = "Divide" -> Number(a \div b)

\* binary_op!
BinaryOp(vm, op) ==
  IF ~PeekOk(vm, 1) THEN PeekFailed(vm)
  ELSE IF Peek(vm, 0).k = "Number" /\ Peek(vm, 1).k = "Number"
  THEN PopPopPush(vm, Arith(op, Peek(vm, 1).v, Peek(vm, 0).v))
  ELSE RuntimeError(vm, "Operands must be numbers.")

DoGreater(vm) == BinaryOp(vm, "Greater")
DoLess(vm) == BinaryOp(vm, "Less")
DoSubtract(vm) == BinaryOp(vm, "Subtract")
DoMultiply(vm) == BinaryOp(vm, "Multiply")
DoDivide(vm) == BinaryOp(vm, "Divide")

DoAdd(vm) ==
  IF ~PeekOk(vm, 1) THEN PeekFailed(vm)
  ELSE LET b == Peek(vm, 0)
           a == Peek(vm, 1)
       IN IF a.k = "Number" /\ b.k = "Number"
          THEN PopPopPush(vm, Number(a.v + b.v))
          ELSE IF a.k = "String" /\ b.k = "String"
          THEN LET i == Intern(vm.strings, AsStr(vm.strings, a.v)
                                           \o AsStr(vm.strings, b.v))
               IN PopPopPush([vm EXCEPT !.strings = i.strings], String(i.handle))
          ELSE RuntimeError(vm, "Operands must be two numbers or two strings.")

DoNot(vm) ==
  LET v1 == Pop(vm) IN
  IF v1.status # "running" THEN v1 ELSE Push(v1, Bool(IsFalsy(PopValue(vm))))

DoNegate(vm) ==
  LET v1 == Pop(vm) IN
  IF v1.status # "running" THEN v1
  ELSE IF PopValue(vm).k = "Number" THEN Push(v1, Number(-PopValue(vm).v))
  ELSE RuntimeError(v1, "Operand must be a number.")

DoPrint(vm) ==
  LET v1 == Pop(vm) IN
  IF v1.status # "running" THEN v1
  ELSE [v1 EXCEPT !.out = Append(@, ValueText(vm.strings, PopValue(vm)))]

DoJump(vm) ==
  LET r == ReadU16(vm) IN
  IF ~r.ok THEN ReadFailed(r.vm)
  ELSE [r.vm EXCEPT !.frames[vm.frame_count - 1].ip = @ + r.value]

DoJumpIfFalse(vm) ==
  LET r == ReadU16(vm) IN
  IF ~r.ok THEN ReadFailed(r.vm)
  ELSE IF ~PeekOk(r.vm, 0) THEN PeekFailed(r.vm)
  ELSE IF IsFalsy(Peek(r.vm, 0))
  THEN [r.vm EXCEPT !.frames[vm.frame_count - 1].ip = @ + r.value]
  ELSE r.vm

DoLoop(vm) ==
  LET r == ReadU16(vm) IN
  IF ~r.ok THEN ReadFailed(r.vm)
  ELSE IF CurrentFrame(r.vm).ip < r.value THEN VMPanic(r.vm)
  ELSE [r.vm EXCEPT !.frames[vm.frame_count - 1].ip = @ - r.value]

\* result: what a native callee returns
DoCall(vm, result) ==
  LET b == ReadU8(vm) IN
  IF ~b.ok THEN ReadFailed(b.vm)
  ELSE IF ~PeekOk(b.vm, b.byte) THEN PeekFailed(b.vm)
  ELSE CallValue(b.vm, Peek(b.vm, b.byte), b.byte, result)

\* the loop `for i in 0..upvalue_count` of the Closure arm:
\* [vm, failed, closure]
RECURSIVE ClosureUpvalues(_, _, _, _)
ClosureUpvalues(vm, closure, i, upvalue_count) ==
  IF i >= upvalue_count THEN [vm |-> vm, closure |-> closure]
  ELSE
    LET is_local == ReadU8(vm)
        index == ReadU8(is_local.vm)
        v2 == index.vm
        offset == CurrentFrame(vm).starts_at
        enclosing == CurrentFrame(vm).closure.upvalues
    IN IF ~is_local.ok \/ ~index.ok
       THEN [vm |-> ReadFailed(v2), closure |-> closure]
       ELSE IF is_local.byte = 1
       THEN IF offset + index.byte >= STACK_MAX
            THEN [vm |-> VMPanic(v2), closure |-> closure]
            ELSE LET c == CaptureUpvalue(v2, offset + index.byte) IN
                 ClosureUpvalues(c.vm,
                                 [closure EXCEPT !.upvalues = Append(@, c.cell)],
                                 i + 1, upvalue_count)
       ELSE IF i >= Len(enclosing)
            THEN [vm |-> VMPanic(v2), closure |-> closure]
            ELSE ClosureUpvalues(v2,
                                 [closure EXCEPT !.upvalues = Append(@, enclosing[i + 1])],
                                 i + 1, upvalue_count)

DoClosure(vm) ==
  LET c == ReadConstant(vm) IN
  IF ~c.ok THEN InternalError(c.vm, c.msg)
  ELSE IF c.value.k # "Function"
  THEN InternalError(c.vm, "Expected function for closure")
  ELSE LET fun == c.value.function
           r == ClosureUpvalues(c.vm, ClosureNew(fun), 0, fun.upvalue_count)
       IN IF r.vm.status # "running" THEN r.vm
          ELSE Push(r.vm, ClosureValue(r.closure))

DoCloseUpvalue(vm) ==
  IF vm.stack_count = 0 THEN VMPanic(vm)
  ELSE Pop(CloseUpvalues(vm, vm.stack_count - 1))

\* the Return arm without `self.stack_count = starts_at`
DoReturnUntruncated(vm) ==
  LET v1 == Pop(vm)
      result == PopValue(vm)
      starts_at == CurrentFrame(vm).starts_at
  IN IF v1.status # "running" THEN v1
     ELSE LET v2 == [CloseUpvalues(v1, starts_at) EXCEPT !.frame_count = @ - 1]
          IN IF v2.frame_count = 0
             THEN LET v3 == Pop(v2) IN
                  IF v3.status # "running" THEN v3
                  ELSE [v3 EXCEPT !.status = "Ok"]
             ELSE Push(v2, result)

DoReturn(vm) ==
  LET v1 == Pop(vm)
      result == PopValue(vm)
      starts_at == CurrentFrame(vm).starts_at
  IN IF v1.status # "running" THEN v1
     ELSE LET v2 == [CloseUpvalues(v1, starts_at) EXCEPT !.frame_count = @ - 1]
          IN IF v2.frame_count = 0
             THEN LET v3 == Pop(v2) IN
                  IF v3.status # "running" THEN v3
                  ELSE [v3 EXCEPT !.status = "Ok"]
             ELSE Push([v2 EXCEPT !.stack_count = starts_at], result)

\* the Err arm of `self.read_u8()?.try_into()` at the head of the loop
DoInvalid(vm, byte) ==
  RuntimeError(vm, "Got unexpected instruction: '" \o ToString(byte) \o "'")

(***************************************************************************)
(* Sources given to interpret, as the statement lists parse_tokens yields  *)
(* for them.  Every token is on line 1 unless said otherwise.              *)
(***************************************************************************)
Id(name) == Token("Identifier", name, 1)
Ref(name) == Variable(Id(name))
Num(lexeme) == Literal(Token("Number", lexeme, 1))
Str(text) == Literal(Token("String", "\"" \o text \o "\"", 1))
Lit(kind) == Literal(Token(kind, "", 1))
Bin(left, kind, right) == Binary(left, Token(kind, "", 1), right)
Log(left, kind, right) == Logical(left, Token(kind, "", 1), right)
Un(kind, right) == Unary(Token(kind, "", 1), right)
Set(name, value) == Assign(Id(name), value)
Show(expression) == PrintStmt(Token("Print", "print", 1), expression)
Ret(value) == Return(Token("Return", "return", 1), value)
VarDecl(name, initializer) == Var(Id(name), initializer)
Fun(name, params, body) ==
  Function(Id(name), [i \in 1..Len(params) |-> Id(params[i])], body,
           Token("RightBrace", "}", 1))
Do(expression) == ExpressionStmt(expression)
CallOf(name, args) == Call(Ref(name), args)

\* print 1 + 2 * 3;
SrcArith == <<Show(Bin(Num("1"), "Plus", Bin(Num("2"), "Star", Num("3"))))>>

\* var a = "foo"; var b = "bar"; print a + b;
SrcConcat ==
  <<VarDecl("a", Str("foo")), VarDecl("b", Str("bar")),
    Show(Bin(Ref("a"), "Plus", Ref("b")))>>

\* fun makeCounter() { var i = 0; fun count() { i = i + 1; print i; }
\*   return count; }  var c = makeCounter(); c(); c(); c();
SrcCounter ==
  <<Fun("makeCounter", <<>>,
        <<VarDecl("i", Num("0")),
          Fun("count", <<>>,
              <<Do(Set("i", Bin(Ref("i"), "Plus", Num("1")))), Show(Ref("i"))>>),
          Ret(Ref("count"))>>),
    VarDecl("c", CallOf("makeCounter", <<>>)),
    Do(CallOf("c", <<>>)), Do(CallOf("c", <<>>)), Do(CallOf("c", <<>>))>>

\* var x; print x;
SrcNilVar == <<VarDecl("x", None), Show(Ref("x"))>>

\* print foo;
SrcUndefined == <<Show(Ref("foo"))>>

\* fun f() { return f; } print f() == f;
SrcFunEq ==
  <<Fun("f", <<>>, <<Ret(Ref("f"))>>),
    Show(Bin(CallOf("f", <<>>), "EqualEqual", Ref("f")))>>

\* for (var i = 0; i < 3; i = i + 1) print i;
SrcFor ==
  <<For(VarDecl("i", Num("0")), Bin(Ref("i"), "Less", Num("3")),
        Set("i", Bin(Ref("i"), "Plus", Num("1"))), Show(Ref("i")))>>

\* var a = 1; { var a = 2; { var a = 3; print a; } print a; } print a;
SrcScopes ==
  <<VarDecl("a", Num("1")),
    Block(<<VarDecl("a", Num("2")),
            Block(<<VarDecl("a", Num("3")), Show(Ref("a"))>>),
            Show(Ref("a"))>>),
    Show(Ref("a"))>>

\* { var a = 1; fun set() { a = 2; } set(); print a; }
SrcOpenSet ==
  <<Block(<<VarDecl("a", Num("1")),
            Fun("set", <<>>, <<Do(Set("a", Num("2")))>>),
            Do(CallOf("set", <<>>)),
            Show(Ref("a"))>>)>>

\* { var a = 1; fun get() { print a; } a = 2; get(); }
SrcOpenGet ==
  <<Block(<<VarDecl("a", Num("1")),
            Fun("get", <<>>, <<Show(Ref("a"))>>),
            Do(Set("a", Num("2"))),
            Do(CallOf("get", <<>>))>>)>>

\* var get; var set;
\* { var a = 1; fun g() { return a; } fun s(v) { a = v; } get = g; set = s; }
\* print get(); set(2); print get(); set(3); set(4); print get(); print get();
SrcShared ==
  <<VarDecl("get", None), VarDecl("set", None),
    Block(<<VarDecl("a", Num("1")),
            Fun("g", <<>>, <<Ret(Ref("a"))>>),
            Fun("s", <<"v">>, <<Do(Set("a", Ref("v")))>>),
            Do(Set("get", Ref("g"))), Do(Set("set", Ref("s")))>>),
    Show(CallOf("get", <<>>)),
    Do(CallOf("set", <<Num("2")>>)), Show(CallOf("get", <<>>)),
    Do(CallOf("set", <<Num("3")>>)), Do(CallOf("set", <<Num("4")>>)),
    Show(CallOf("get", <<>>)), Show(CallOf("get", <<>>))>>

\* fun t(x) { print "b"; return x; }
\* print false and t(1); print nil and t(1); print 1 and t(2);
\* print 1 or t(2); print false or t(3);
SrcLogic ==
  <<Fun("t", <<"x">>, <<Show(Str("b")), Ret(Ref("x"))>>),
    Show(Log(Lit("False"), "And", CallOf("t", <<Num("1")>>))),
    Show(Log(Lit("Nil"), "And", CallOf("t", <<Num("1")>>))),
    Show(Log(Num("1"), "And", CallOf("t", <<Num("2")>>))),
    Show(Log(Num("1"), "Or", CallOf("t", <<Num("2")>>))),
    Show(Log(Lit("False"), "Or", CallOf("t", <<Num("3")>>)))>>

\* fun f() { f(); } f();
SrcRecurse ==
  <<Fun("f", <<>>, <<Do(CallOf("f", <<>>))>>), Do(CallOf("f", <<>>))>>

\* fun f(a, b, c) { f(a, b, c); } f(1, 2, 3);
SrcDeep ==
  <<Fun("f", <<"a", "b", "c">>,
        <<Do(CallOf("f", <<Ref("a"), Ref("b"), Ref("c")>>))>>),
    Do(CallOf("f", <<Num("1"), Num("2"), Num("3")>>))>>

\* var a = 1; fun f() { var a = 2; a = 3; print a; } f(); print a;
\* { var a = 4; a = 5; print a; } print a; a = 6; print a;
SrcShadow ==
  <<VarDecl("a", Num("1")),
    Fun("f", <<>>,
        <<VarDecl("a", Num("2")), Do(Set("a", Num("3"))), Show(Ref("a"))>>),
    Do(CallOf("f", <<>>)), Show(Ref("a")),
    Block(<<VarDecl("a", Num("4")), Do(Set("a", Num("5"))), Show(Ref("a"))>>),
    Show(Ref("a")), Do(Set("a", Num("6"))), Show(Ref("a"))>>

\* var n = 3; while (n > 0) { if (n == 2) print "two"; else print -n;
\*   n = n - 1; }  print !(8 / 2 == 4); print clock() >= 0;
SrcWhile ==
  <<VarDecl("n", Num("3")),
    While(Bin(Ref("n"), "Greater", Num("0")),
          Block(<<If(Bin(Ref("n"), "EqualEqual", Num("2")),
                     Show(Str("two")), Show(Un("Minus", Ref("n")))),
                  Do(Set("n", Bin(Ref("n"), "Minus", Num("1"))))>>)),
    Show(Un("Bang", Bin(Bin(Num("8"), "Slash", Num("2")), "EqualEqual",
                        Num("4")))),
    Show(Lit("True")),
    Show(Bin(CallOf("clock", <<>>), "GreaterEqual", Num("0")))>>

\* { var a = 1; return; }
SrcReturn == <<Block(<<VarDecl("a", Num("1")), Ret(None)>>)>>

\* fun inner() { return nope; }
\* fun outer() { return inner(); }
\* outer();
SrcTrace ==
  <<Function(Token("Identifier", "inner", 1), <<>>,
             <<Return(Token("Return", "return", 1),
                      Variable(Token("Identifier", "nope", 1)))>>,
             Token("RightBrace", "}", 1)),
    Function(Token("Identifier", "outer", 2), <<>>,
             <<Return(Token("Return", "return", 2),
                      Call(Variable(Token("Identifier", "inner", 2)), <<>>))>>,
             Token("RightBrace", "}", 2)),
    ExpressionStmt(Call(Variable(Token("Identifier", "outer", 3)), <<>>))>>

\* print clock(1, 2) >= 0;
SrcNative ==
  <<Show(Bin(CallOf("clock", <<Num("1"), Num("2")>>), "GreaterEqual",
             Num("0")))>>

\* x = 1;
SrcSetUndefined == <<Do(Set("x", Num("1")))>>

\* var j = 0; for (; j < 2; j = j + 1) print j;
SrcForNoInitializer ==
  <<VarDecl("j", Num("0")),
    For(None, Bin(Ref("j"), "Less", Num("2")),
        Set("j", Bin(Ref("j"), "Plus", Num("1"))), Show(Ref("j")))>>

\* fun f() { for (var i = 0; ; i = i + 1) { print i; if (i >= 1) return; } }
\* f();
SrcForNoCondition ==
  <<Fun("f", <<>>,
        <<For(VarDecl("i", Num("0")), None,
              Set("i", Bin(Ref("i"), "Plus", Num("1"))),
              Block(<<Show(Ref("i")),
                      If(Bin(Ref("i"), "GreaterEqual", Num("1")), Ret(None),
                         None)>>))>>),
    Do(CallOf("f", <<>>))>>

\* fun outer() { var a = 1; var b = 2;
\*   fun middle() { print a; fun inner() { print b; } inner(); }
\*   middle(); }
\* outer();
SrcUpvalueIndex ==
  <<Fun("outer", <<>>,
        <<VarDecl("a", Num("1")), VarDecl("b", Num("2")),
          Fun("middle", <<>>,
              <<Show(Ref("a")),
                Fun("inner", <<>>, <<Show(Ref("b"))>>),
                Do(CallOf("inner", <<>>))>>),
          Do(CallOf("middle", <<>>))>>),
    Do(CallOf("outer", <<>>))>>

\* var j = 0; for (; j < 2; ) { print j; j = j + 1; }
SrcForCondition ==
  <<VarDecl("j", Num("0")),
    For(None, Bin(Ref("j"), "Less", Num("2")), None,
        Block(<<Show(Ref("j")),
                Do(Set("j", Bin(Ref("j"), "Plus", Num("1"))))>>))>>

\* { for (; false; ) { } var a = 1; print a; }
SrcLocalAfterFor ==
  <<Block(<<For(None, Lit("False"), None, Block(<<>>)),
            VarDecl("a", Num("1")),
            Show(Ref("a"))>>)>>

Sources ==
  <<SrcArith, SrcConcat, SrcCounter, SrcNilVar, SrcUndefined, SrcFunEq,
    SrcFor, SrcScopes, SrcOpenSet, SrcOpenGet, SrcShared, SrcLogic,
    SrcRecurse, SrcDeep, SrcShadow, SrcWhile, SrcReturn, SrcTrace,
    SrcSetUndefined, SrcNative, SrcForNoInitializer, SrcForNoCondition,
    SrcUpvalueIndex, SrcForCondition, SrcLocalAfterFor>>

\* the tokens scan_tokens makes of a source written on line 1, from the
\* <<kind, lexeme>> of each
RECURSIVE Scanned(_)
Scanned(pairs) ==
  IF pairs = <<>> THEN <<>>
  ELSE <<Token(pairs[1][1], pairs[1][2], 1)>> \o Scanned(Tail(pairs))

\* the lines typed into one session of the prompt
\* var kept = 7;
LineDefine ==
  Scanned(<<<<"Var", "var">>, <<"Identifier", "kept">>, <<"Equal", "=">>,
            <<"Number", "7">>, <<"Semicolon", ";">>>>)
\* kept = 8;
LineAssign ==
  Scanned(<<<<"Identifier", "kept">>, <<"Equal", "=">>, <<"Number", "8">>,
            <<"Semicolon", ";">>>>)
\* print kept;
LineRead ==
  Scanned(<<<<"Print", "print">>, <<"Identifier", "kept">>,
            <<"Semicolon", ";">>>>)
\* { var a; var a; }
LineRedeclare ==
  Scanned(<<<<"LeftBrace", "{">>, <<"Var", "var">>, <<"Identifier", "a">>,
            <<"Semicolon", ";">>, <<"Var", "var">>, <<"Identifier", "a">>,
            <<"Semicolon", ";">>, <<"RightBrace", "}">>>>)
\* print 1; print ;
LineBroken ==
  Scanned(<<<<"Print", "print">>, <<"Number", "1">>, <<"Semicolon", ";">>,
            <<"Print", "print">>, <<"Semicolon", ";">>>>)

\* { var a = a; } { }
LineOwnInitializer ==
  Scanned(<<<<"LeftBrace", "{">>, <<"Var", "var">>, <<"Identifier", "a">>,
            <<"Equal", "=">>, <<"Identifier", "a">>, <<"Semicolon", ";">>,
            <<"RightBrace", "}">>, <<"LeftBrace", "{">>,
            <<"RightBrace", "}">>>>)

\* the empty line
LineEmpty == <<>>

\* print 1 == 2 == false;
LineEquality ==
  Scanned(<<<<"Print", "print">>, <<"Number", "1">>, <<"EqualEqual", "==">>,
            <<"Number", "2">>, <<"EqualEqual", "==">>, <<"False", "false">>,
            <<"Semicolon", ";">>>>)

\* { var a; fun f() { a; } b; }
LineAbort ==
  Scanned(<<<<"LeftBrace", "{">>, <<"Var", "var">>, <<"Identifier", "a">>,
            <<"Semicolon", ";">>, <<"Fun", "fun">>, <<"Identifier", "f">>,
            <<"LeftParen", "(">>, <<"RightParen", ")">>,
            <<"LeftBrace", "{">>, <<"Identifier", "a">>,
            <<"Semicolon", ";">>, <<"RightBrace", "}">>,
            <<"Identifier", "b">>, <<"Semicolon", ";">>,
            <<"RightBrace", "}">>>>)

\* fun f() { return f; } f()();
LineChain ==
  Scanned(<<<<"Fun", "fun">>, <<"Identifier", "f">>, <<"LeftParen", "(">>,
            <<"RightParen", ")">>, <<"LeftBrace", "{">>,
            <<"Return", "return">>, <<"Identifier", "f">>,
            <<"Semicolon", ";">>, <<"RightBrace", "}">>,
            <<"Identifier", "f">>, <<"LeftParen", "(">>,
            <<"RightParen", ")">>, <<"LeftParen", "(">>,
            <<"RightParen", ")">>, <<"Semicolon", ";">>>>)

Lines ==
  <<LineDefine, LineAssign, LineRead, LineRedeclare, LineBroken,
    LineOwnInitializer, LineAbort, LineEmpty, LineEquality, LineChain>>

\* what compile makes of the input p
Compiled(p) ==
  IF p <= Len(Sources) THEN Compile(chunks, strings, Sources[p])
  ELSE CompileSource(chunks, strings, Lines[p - Len(Sources)])

(***************************************************************************)
(* The state machine: interpret calls on one VM, and the dispatch loop of  *)
(* run, one action per arm.                                                *)
(***************************************************************************)
\* VM::new
InitVM ==
  /\ globals = [n \in {"clock"} |-> Native("clock")]
  /\ stack = [i \in 0..(STACK_MAX - 1) |-> Nil]
  /\ stack_count = 0
  /\ frames = [i \in 0..(CALL_FRAME_MAX - 1) |-> CallFrameDefault]
  /\ frame_count = 0
  /\ open_upvalues = 0
  /\ cells = <<>>
  /\ chunks = <<>>
  /\ strings = <<>>
  /\ out = <<>>
  /\ err = <<>>
  /\ status = "idle"
  /\ interprets = 0
  /\ program = 0

Init ==
  /\ InitVM
  /\ functions = None
  /\ cw = None
  /\ walk = None
  /\ legacy = None
  /\ parser = None

\* the variables take the fields of vm
Apply(vm) ==
  /\ globals' = vm.globals
  /\ stack' = vm.stack
  /\ stack_count' = vm.stack_count
  /\ frames' = vm.frames
  /\ frame_count' = vm.frame_count
  /\ open_upvalues' = vm.open_upvalues
  /\ cells' = vm.cells
  /\ strings' = vm.strings
  /\ out' = vm.out
  /\ err' = vm.err
  /\ status' = vm.status

\* interpret on a VM made anew for the call
InterpretStartFresh(vm, function) ==
  LET closure == ClosureNew(function)
      fresh == [vm EXCEPT !.globals = [n \in {"clock"} |-> Native("clock")]]
      v1 == Push(fresh, ClosureValue(closure))
  IN [VMCall([v1 EXCEPT !.status = "running"], closure, 0)
        EXCEPT !.status = "running"]

\* interpret up to the first instruction: compile, push the script closure,
\* call it (its Result is dropped by .ok()), enter run
InterpretStart(vm, function) ==
  LET closure == ClosureNew(function)
      v1 == Push(vm, ClosureValue(closure))
  IN IF v1.status = "Panic" THEN v1
     ELSE LET v2 == VMCall([v1 EXCEPT !.status = "running"], closure, 0)
          IN IF v2.status = "Panic" THEN v2
             ELSE IF v2.frame_count = 0 THEN VMPanic(v2)
             ELSE [v2 EXCEPT !.status = "running"]

\* interpret once compile has returned c
Interpreted(c) ==
  IF c.ok
  THEN /\ chunks' = c.chunks
       /\ Apply(InterpretStart([VMState EXCEPT !.strings = c.strings], c.ret))
  ELSE /\ chunks' = chunks
       /\ Apply([VMState EXCEPT
                   !.strings = c.strings,
                   !.err = @ \o c.errs,
                   !.status = IF c.panic THEN "Panic" ELSE "CompileError"])

\* one interpret call, on the input p
Interpret(p) ==
  /\ status \notin {"running", "Panic"}
  /\ interprets' = interprets + 1
  /\ program' = p
  /\ Interpreted(Compiled(p))
  /\ UNCHANGED sidevars

\* main with a path: run_file interprets the file and the process ends
RunFile ==
  /\ interprets = 0
  /\ \E p \in 1..Len(Sources) : Interpret(p)

\* main without arguments: repl interprets line after line on the one VM
ReplLine ==
  /\ interprets < MaxInterprets
  /\ interprets = 0 \/ program > Len(Sources)
  /\ \E l \in 1..Len(Lines) : Interpret(Len(Sources) + l)

\* the opcode read at the head of the loop
Fetched == ReadU8(VMState)
Instruction ==
  IF status # "running" THEN "none"
  ELSE IF ~Fetched.ok THEN "ReadError"
  ELSE OpTryFrom(Fetched.byte)

\* one turn of the loop of run leaves the machine as vm
Step(vm) ==
  /\ Apply(vm)
  /\ UNCHANGED <<chunks, interprets, program, sidevars>>

OpConstant == Instruction = "Constant" /\ Step(DoConstant(Fetched.vm))
OpNil == Instruction = "Nil" /\ Step(DoNil(Fetched.vm))
OpTrue == Instruction = "True" /\ Step(DoTrue(Fetched.vm))
OpFalse == Instruction = "False" /\ Step(DoFalse(Fetched.vm))
OpPop == Instruction = "Pop" /\ Step(DoPop(Fetched.vm))
OpGetLocal == Instruction = "GetLocal" /\ Step(DoGetLocal(Fetched.vm))
OpSetLocal == Instruction = "SetLocal" /\ Step(DoSetLocal(Fetched.vm))
OpGetGlobal == Instruction = "GetGlobal" /\ Step(DoGetGlobal(Fetched.vm))
OpDefineGlobal == Instruction = "DefineGlobal" /\ Step(DoDefineGlobal(Fetched.vm))
OpSetGlobal == Instruction = "SetGlobal" /\ Step(DoSetGlobal(Fetched.vm))
OpGetUpvalue == Instruction = "GetUpvalue" /\ Step(DoGetUpvalue(Fetched.vm))
OpSetUpvalue == Instruction = "SetUpvalue" /\ Step(DoSetUpvalue(Fetched.vm))
OpEqual == Instruction = "Equal" /\ Step(DoEqual(Fetched.vm))
OpGreater == Instruction = "Greater" /\ Step(DoGreater(Fetched.vm))
OpLess == Instruction = "Less" /\ Step(DoLess(Fetched.vm))
OpAdd == Instruction = "Add" /\ Step(DoAdd(Fetched.vm))
OpSubtract == Instruction = "Subtract" /\ Step(DoSubtract(Fetched.vm))
OpMultiply == Instruction = "Multiply" /\ Step(DoMultiply(Fetched.vm))
OpDivide == Instruction = "Divide" /\ Step(DoDivide(Fetched.vm))
OpNot == Instruction = "Not" /\ Step(DoNot(Fetched.vm))
OpNegate == Instruction = "Negate" /\ Step(DoNegate(Fetched.vm))
OpPrint == Instruction = "PrintOp" /\ Step(DoPrint(Fetched.vm))
OpJump == Instruction = "Jump" /\ Step(DoJump(Fetched.vm))
OpJumpIfFalse == Instruction = "JumpIfFalse" /\ Step(DoJumpIfFalse(Fetched.vm))
OpLoop == Instruction = "Loop" /\ Step(DoLoop(Fetched.vm))
OpCall ==
  /\ Instruction = "Call"
  /\ \E t \in ClockValues : Step(DoCall(Fetched.vm, Number(t)))
OpClosure == Instruction = "Closure" /\ Step(DoClosure(Fetched.vm))
OpCloseUpvalue == Instruction = "CloseUpvalue" /\ Step(DoCloseUpvalue(Fetched.vm))
OpReturn == Instruction = "Return" /\ Step(DoReturn(Fetched.vm))

Next ==
  \/ RunFile \/ ReplLine
  \/ OpConstant \/ OpNil \/ OpTrue \/ OpFalse \/ OpPop
  \/ OpGetLocal \/ OpSetLocal
  \/ OpGetGlobal \/ OpDefineGlobal \/ OpSetGlobal
  \/ OpGetUpvalue \/ OpSetUpvalue
  \/ OpEqual \/ OpGreater \/ OpLess
  \/ OpAdd \/ OpSubtract \/ OpMultiply \/ OpDivide
  \/ OpNot \/ OpNegate \/ OpPrint
  \/ OpJump \/ OpJumpIfFalse \/ OpLoop
  \/ OpCall \/ OpClosure \/ OpCloseUpvalue \/ OpReturn

Spec == Init /\ [][Next]_vars

(***************************************************************************)
(* The first crate (src/src): its Chunk and the constant path of its       *)
(* single-pass compiler.  A compiler state c holds the chunk it writes,    *)
(* the parser's two flags, the messages written to stderr, whether the     *)
(* process panicked, and the value the last call returned (ret).           *)
(***************************************************************************)
\* Compiler::new of src/src on Chunk::new
SrcCompilerNew ==
  [chunk |-> ChunkNew, had_error |-> FALSE, panic_mode |-> FALSE,
   errs |-> <<>>, panicked |-> FALSE, ret |-> 0]

\* Chunk::add_constant of src/src: the value is pushed, then the index must
\* fit a u8 or `expect` panics
SrcAddConstant(chunk, value) ==
  [chunk |-> [chunk EXCEPT !.constants = Append(@, value)],
   index |-> Len(chunk.constants),
   panicked |-> Len(chunk.constants) > U8_MAX]

\* Compiler::error of src/src (the message without its location)
SrcError(c, message) ==
  IF c.panic_mode THEN c
  ELSE [c EXCEPT !.panic_mode = TRUE, !.had_error = TRUE,
                 !.errs = Append(@, message)]

\* Compiler::make_constant of src/src: `constant > u8::MAX` on a u8
SrcMakeConstant(c, value) ==
  LET r == SrcAddConstant(c.chunk, value) IN
  IF r.panicked
  THEN [c EXCEPT !.chunk = r.chunk, !.panicked = TRUE,
                 !.errs = Append(@, "Too many constants: TryFromIntError(())")]
  ELSE IF r.index > U8_MAX
  THEN [SrcError([c EXCEPT !.chunk = r.chunk],
                 "Too many constants in one chunk.") EXCEPT !.ret = 0]
  ELSE [c EXCEPT !.chunk = r.chunk, !.ret = r.index]

\* Compiler::emit_constant of src/src
SrcEmitConstant(c, value) ==
  LET c1 == SrcMakeConstant(c, value) IN
  IF c1.panicked THEN c1
  ELSE [c1 EXCEPT !.chunk = ChunkWrite(ChunkWrite(@, Op.Constant, 1), c1.ret, 1)]

\* Compiler::number of src/src
SrcNumber(c, lexeme) == SrcEmitConstant(c, Number(ParseNumber(lexeme)))

(***************************************************************************)
(* Number literals compiled one after the other into one chunk, by either  *)
(* crate.                                                                  *)
(***************************************************************************)
\* literals handed to one chunk
MaxLiterals == 258

ChunkInit ==
  /\ InitVM
  /\ functions = None
  /\ walk = None
  /\ parser = None
  /\ \/ cw = CompilerWrapperNew(<<>>, <<>>) /\ legacy = None
     \/ cw = None /\ legacy = SrcCompilerNew

\* the literals compiled so far: each emitted Constant and its operand
Literals(chunk) == Len(chunk.code) \div 2

\* rustlox compiles the literal n, n literals having been compiled
NumberLiteral ==
  /\ cw # None
  /\ cw.ok
  /\ Literals(CurrentChunk(cw)) < MaxLiterals
  /\ cw' = CompileLiteral(cw, Num(ToString(Literals(CurrentChunk(cw)))))
  /\ UNCHANGED <<vmvars, walk, legacy, parser, functions>>

\* src/src compiles the literal n, n literals having been compiled
SrcNumberLiteral ==
  /\ legacy # None
  /\ ~legacy.panicked
  /\ Literals(legacy.chunk) < MaxLiterals
  /\ legacy' = SrcNumber(legacy, ToString(Literals(legacy.chunk)))
  /\ UNCHANGED <<vmvars, walk, cw, parser, functions>>

ChunkNext == NumberLiteral \/ SrcNumberLiteral

SpecChunk == ChunkInit /\ [][ChunkNext]_vars

(***************************************************************************)
(* A compile followed through the syntax tree.  walk.pending holds the     *)
(* statements entered and not yet left, innermost last: a Block waits for  *)
(* its end_scope, a Function for the rest of `function` and the            *)
(* define_variable of fun_declaration.  walk.result is what get_arg gave   *)
(* for the identifier of the statement just compiled (None otherwise).     *)
(***************************************************************************)
WalkNew == [pending |-> <<>>, result |-> None]

WalkInit ==
  /\ InitVM
  /\ functions = None
  /\ cw = CompilerWrapperNew(<<>>, <<>>)
  /\ walk = WalkNew
  /\ legacy = None
  /\ parser = None

Entered(frame) == [pending |-> Append(walk.pending, frame), result |-> None]
Left == [pending |-> SubSeq(walk.pending, 1, Len(walk.pending) - 1),
         result |-> None]
Innermost == walk.pending[Len(walk.pending)]

\* the compile goes on as c, the walk as w
Walked(c, w) ==
  /\ cw' = c
  /\ walk' = w
  /\ UNCHANGED <<vmvars, legacy, parser, functions>>

\* block_statement up to its first statement
EnterBlock ==
  Walked(BeginScope(cw), Entered([t |-> "Block"]))

\* block_statement after its last statement
LeaveBlock ==
  /\ walk.pending # <<>>
  /\ Innermost.t = "Block"
  /\ Walked(EndScope(cw), Left)

\* fun_declaration up to the first statement of the body
EnterFunction(function) ==
  Walked(Try(ParseVariable(cw, function.name), LAMBDA global :
             FunctionHead(MarkInitialized(global), function)),
         Entered([t |-> "Function", function |-> function,
                  global |-> ParseVariable(cw, function.name).ret]))

\* fun_declaration after the last statement of the body
LeaveFunction ==
  /\ walk.pending # <<>>
  /\ Innermost.t = "Function"
  /\ Walked(Try(FunctionTail(cw, Innermost.function), LAMBDA c2 :
                DefineVariable(c2, Innermost.global)),
            Left)

\* `var name;`
DeclareVar(name) ==
  Walked(VarDeclaration(cw, VarDecl(name, None)),
         [walk EXCEPT !.result = None])

\* the two bytes `variable` or `assignment` emitted before the Pop of the
\* expression statement
Resolved(c, name, set) ==
  IF ~c.ok THEN None
  ELSE [name |-> name, set |-> set,
        op |-> CurrentChunk(c).code[GetCurrentLen(c) - 2],
        arg |-> CurrentChunk(c).code[GetCurrentLen(c) - 1]]

UseResult(c, name, set) == Walked(c, [walk EXCEPT !.result = Resolved(c, name, set)])

\* `name;`
UseVar(name) ==
  UseResult(ExpressionStatement(cw, Do(Ref(name))), name, FALSE)

\* `name = nil;`
AssignVar(name) ==
  UseResult(ExpressionStatement(cw, Do(Set(name, Lit("Nil")))), name, TRUE)

(***************************************************************************)
(* Declarations of fresh locals in one function, up to the limit.          *)
(***************************************************************************)
\* declarations handed to one function
MaxDeclarations == 256

\* the name of the next declaration
FreshName == "v" \o ToString(Len(Current(cw).locals))

LocalsBlock ==
  /\ cw.ok
  /\ walk.pending = <<>>
  /\ EnterBlock

LocalsFunction ==
  /\ cw.ok
  /\ walk.pending = <<>>
  /\ EnterFunction(Fun("f", <<>>, <<>>))

LocalsDeclare ==
  /\ cw.ok
  /\ walk.pending # <<>>
  /\ Len(Current(cw).locals) <= MaxDeclarations
  /\ DeclareVar(FreshName)

LocalsNext == LocalsBlock \/ LocalsFunction \/ LocalsDeclare

SpecLocals == WalkInit /\ [][LocalsNext]_vars

(***************************************************************************)
(* Declarations and uses of a few names in nested blocks and functions.    *)
(***************************************************************************)
\* statements entered and not left
MaxNesting == 3
\* bytes emitted, over all chunks, before the walk stops
MaxCode == 4
Names == {"a", "b"}

RECURSIVE CodeSize(_, _)
CodeSize(cs, i) == IF i > Len(cs) THEN 0 ELSE Len(cs[i].code) + CodeSize(cs, i + 1)

Walking == cw.ok /\ CodeSize(cw.chunks, 1) < MaxCode

ResolveEnterBlock ==
  /\ Walking
  /\ Len(walk.pending) < MaxNesting
  /\ EnterBlock

ResolveLeaveBlock == Walking /\ LeaveBlock

ResolveEnterFunction ==
  /\ Walking
  /\ Len(walk.pending) < MaxNesting
  /\ \E name \in Names, params \in {<<>>, <<"a">>} :
        EnterFunction(Fun(name, params, <<>>))

ResolveLeaveFunction == Walking /\ LeaveFunction

ResolveDeclare == Walking /\ \E name \in Names : DeclareVar(name)

ResolveUse == Walking /\ \E name \in Names : UseVar(name)

ResolveAssign == Walking /\ \E name \in Names : AssignVar(name)

ResolveNext ==
  \/ ResolveEnterBlock \/ ResolveLeaveBlock
  \/ ResolveEnterFunction \/ ResolveLeaveFunction
  \/ ResolveDeclare \/ ResolveUse \/ ResolveAssign

SpecResolve == WalkInit /\ [][ResolveNext]_vars

(***************************************************************************)
(* parse_tokens followed through its loop, on every short sequence of      *)
(* tokens.  parser.p is the Parser, parser.returned tells that             *)
(* parse_tokens has returned ParseResult(parser.p).                        *)
(***************************************************************************)
\* tokens of one source
MaxTokens == 4

\* the tokens a source is made of here, all on line 1
TokenKinds ==
  {Token("Print", "print", 1), Token("Var", "var", 1),
   Token("Identifier", "a", 1), Token("Equal", "=", 1),
   Token("Number", "1", 1), Token("Semicolon", ";", 1),
   Token("LeftBrace", "{", 1), Token("RightBrace", "}", 1)}

TokenSeqs == UNION {[1..n -> TokenKinds] : n \in 0..MaxTokens}

ParseInit ==
  /\ InitVM
  /\ functions = None
  /\ cw = None
  /\ walk = None
  /\ legacy = None
  /\ \E tokens \in TokenSeqs :
        parser = [p |-> ParserNew(tokens), returned |-> FALSE]

\* one iteration of the loop of parse_tokens: a declaration is parsed
ParseStep ==
  /\ ~parser.p.panic
  /\ ~parser.returned
  /\ ~IsAtEnd(parser.p)
  /\ parser' = [parser EXCEPT !.p = ParseIteration(@)]
  /\ UNCHANGED <<vmvars, cw, walk, legacy, functions>>

\* the loop of parse_tokens is over: it returns
ParseEnd ==
  /\ ~parser.p.panic
  /\ ~parser.returned
  /\ IsAtEnd(parser.p)
  /\ parser' = [parser EXCEPT !.returned = TRUE]
  /\ UNCHANGED <<vmvars, cw, walk, legacy, functions>>

ParseNext == ParseStep \/ ParseEnd

SpecParse == ParseInit /\ [][ParseNext]_vars

(***************************************************************************)
(* The interner on its own: strings interned one after the other, by       *)
(* from_str and by the `+` of two handles.                                 *)
(***************************************************************************)
\* strings the interner holds before the calls stop
MaxInterned == 3

\* the strings handed to the interner
Texts == {"", "a", "b", "aa", "ab", "ba"}

\* Handle::from_str
FromStr(s) ==
  /\ Len(strings) < MaxInterned
  /\ strings' = Intern(strings, s).strings
  /\ UNCHANGED <<globals, stack, stack_count, frames, frame_count,
                 open_upvalues, cells, chunks, out, err, status, interprets,
                 program, sidevars>>

\* Add for &Handle: from_str of the two strings one after the other
AddHandles(a, b) ==
  /\ AsStr(strings, a) \o AsStr(strings, b) \in Texts
  /\ FromStr(AsStr(strings, a) \o AsStr(strings, b))

InternNext ==
  \/ \E s \in Texts : FromStr(s)
  \/ \E a, b \in 0..(Len(strings) - 1) : AddHandles(a, b)

SpecIntern == Init /\ [][InternNext]_vars

(***************************************************************************)
(* The emit operations of the compiler in any order on one chunk.          *)
(* walk.pending holds the operand offsets emit_jump returned that          *)
(* patch_jump has not been given yet, the latest last.                     *)
(***************************************************************************)
\* bytes in the chunk before the emitting stops
MaxEmitted == 6

Emitting == cw.ok /\ GetCurrentLen(cw) < MaxEmitted

\* the emitting goes on as c, the offsets to patch being pending
Emitted(c, pending) ==
  /\ cw' = c
  /\ walk' = [walk EXCEPT !.pending = pending]
  /\ UNCHANGED <<vmvars, legacy, parser, functions>>

\* emit_byte, a token of some line having been visited
EmitByteStep ==
  /\ Emitting
  /\ \E byte \in {0, U8_MAX}, line \in {1, 2} :
        Emitted(EmitByte([cw EXCEPT !.current_line = line], byte),
                walk.pending)

\* emit_jump
EmitJumpStep ==
  /\ Emitting
  /\ \E op \in {"Jump", "JumpIfFalse"} :
        Emitted(EmitJump(cw, op), Append(walk.pending, EmitJump(cw, op).ret))

\* patch_jump on the latest offset not yet patched
PatchJumpStep ==
  /\ Emitting
  /\ walk.pending # <<>>
  /\ Emitted(PatchJump(cw, walk.pending[Len(walk.pending)]),
             SubSeq(walk.pending, 1, Len(walk.pending) - 1))

\* emit_loop back to some earlier place of the chunk
EmitLoopStep ==
  /\ Emitting
  /\ \E loop_start \in 0..GetCurrentLen(cw) :
        Emitted(EmitLoop(cw, loop_start), walk.pending)

\* emit_constant
EmitConstantStep ==
  /\ Emitting
  /\ \E n \in {1, 2} : Emitted(EmitConstant(cw, Number(n)), walk.pending)

EmitNext ==
  \/ EmitByteStep \/ EmitJumpStep \/ PatchJumpStep
  \/ EmitLoopStep \/ EmitConstantStep

SpecEmit == WalkInit /\ [][EmitNext]_vars

(***************************************************************************)
(* capture_upvalue and close_upvalues called in any order on the slots at  *)
(* the bottom of the stack, the slots being written in between.            *)
(***************************************************************************)
\* cells allocated before the capturing stops
MaxCells == 3

\* the stack slots captured, closed from and written
Slots == 0..2

\* the variables a step on the open list leaves alone
upvaluevars == <<chunks, interprets, program, sidevars>>

\* capture_upvalue(&self.stack[slot])
CaptureStep ==
  /\ Len(cells) < MaxCells
  /\ \E slot \in Slots : Apply(CaptureUpvalue(VMState, slot).vm)
  /\ UNCHANGED upvaluevars

\* close_upvalues(&self.stack[last])
CloseStep ==
  /\ \E last \in Slots : Apply(CloseUpvalues(VMState, last))
  /\ UNCHANGED upvaluevars

\* `self.stack[slot] = value`, as SetLocal and push do
WriteStep ==
  /\ \E slot \in Slots, n \in {1, 2} :
        Apply([VMState EXCEPT !.stack[slot] = Number(n)])
  /\ UNCHANGED upvaluevars

UpvaluesNext == CaptureStep \/ CloseStep \/ WriteStep

SpecUpvalues == Init /\ [][UpvaluesNext]_vars

(***************************************************************************)
(* add_upvalue called again and again on the compiler of one function.     *)
(* walk.result holds the arguments of the last call, the slot it returned  *)
(* and the upvalues and the count the compiler had before it.              *)
(***************************************************************************)
\* calls of add_upvalue
MaxUpvalues == 3

\* the indexes handed to add_upvalue
UpvalueIndexes == 0..2

AddUpvalueStep ==
  /\ Len(Current(cw).upvalues) < MaxUpvalues
  /\ \E index \in UpvalueIndexes, is_local \in BOOLEAN :
        /\ cw' = [cw EXCEPT !.compilers[Len(cw.compilers)] =
                     AddUpvalue(Current(cw), index, is_local).compiler]
        /\ walk' = [walk EXCEPT !.result =
                       [index |-> index, is_local |-> is_local,
                        slot |-> AddUpvalue(Current(cw), index, is_local).slot,
                        upvalues |-> Current(cw).upvalues,
                        upvalue_count |->
                          Current(cw).function.upvalue_count]]
  /\ UNCHANGED <<vmvars, legacy, parser, functions>>

\* the calls start over on the compiler of another function
AddUpvalueRestart ==
  /\ Current(cw).upvalues # <<>>
  /\ cw' = CompilerWrapperNew(<<>>, <<>>)
  /\ walk' = WalkNew
  /\ UNCHANGED <<vmvars, legacy, parser, functions>>

AddUpvalueNext == AddUpvalueStep \/ AddUpvalueRestart

SpecAddUpvalue == WalkInit /\ [][AddUpvalueNext]_vars

(***************************************************************************)
(* A forward jump over a body and a Loop back to the body's start, emitted *)
(* by emit_jump, patch_jump and emit_loop into the script's chunk and then *)
(* run by the VM.  walk holds the case: the jump instruction, the length   *)
(* of the body, whether the Loop is emitted, how far the emitting has      *)
(* come, and the offsets the compiler had in hand.                         *)
(***************************************************************************)
\* the lengths of the body: the values around one byte and around the u16
JumpDisplacements ==
  {0, 1, 2, 255, 256, 257, 4660, U16_MAX - 3, U16_MAX - 2, U16_MAX,
   U16_MAX + 1}

JumpInit ==
  /\ InitVM
  /\ functions = None
  /\ cw = CompilerWrapperNew(<<>>, <<>>)
  /\ \E kind \in {"Jump", "JumpIfFalse"}, n \in JumpDisplacements,
        loops \in BOOLEAN :
        walk = [kind |-> kind, body |-> n, loops |-> loops,
                stage |-> "jump", offset |-> 0, loop_start |-> 0,
                patched_at |-> 0]
  /\ legacy = None
  /\ parser = None

\* the emitting goes on as c, the case as w
JumpEmitted(c, w) ==
  /\ cw' = c
  /\ walk' = w
  /\ UNCHANGED <<vmvars, legacy, parser, functions>>

\* n calls of emit_op(Op::Nil) on one line
EmitBody(c, n) ==
  [c EXCEPT !.chunks[Current(c).function.chunk] =
     [@ EXCEPT !.code = @ \o [i \in 1..n |-> Op["Nil"]],
               !.lines = @ \o [i \in 1..n |-> c.current_line]]]

\* emit_jump, after the condition's False when the jump is a JumpIfFalse;
\* the body starts where the chunk then ends
EmitJumpCase ==
  /\ walk.stage = "jump"
  /\ LET c == EmitJump(IF walk.kind = "JumpIfFalse" THEN EmitOp(cw, "False")
                       ELSE cw, walk.kind)
     IN JumpEmitted(c, [walk EXCEPT !.stage = "body", !.offset = c.ret,
                                    !.loop_start = GetCurrentLen(c)])

\* the body
EmitBodyCase ==
  /\ walk.stage = "body"
  /\ JumpEmitted(EmitBody(cw, walk.body), [walk EXCEPT !.stage = "patch"])

\* patch_jump(offset), the chunk ending at patched_at
PatchJumpCase ==
  /\ walk.stage = "patch"
  /\ LET c == PatchJump(cw, walk.offset)
     IN JumpEmitted(c, [walk EXCEPT
                          !.stage = IF ~c.ok THEN "failed"
                                    ELSE IF walk.loops THEN "loop"
                                    ELSE "compiled",
                          !.patched_at = GetCurrentLen(cw)])

\* emit_loop(loop_start)
EmitLoopCase ==
  /\ walk.stage = "loop"
  /\ LET c == EmitLoop(cw, walk.loop_start)
     IN JumpEmitted(c, [walk EXCEPT
                          !.stage = IF c.ok THEN "compiled" ELSE "failed"])

\* compile returns, with end_compiler's function or with the error, and
\* interpret goes on from there
JumpInterpret ==
  /\ walk.stage \in {"compiled", "failed"}
  /\ status = "idle"
  /\ Interpreted(IF cw.ok
                 THEN [EndCompiler(cw) EXCEPT
                         !.ret = EndCompiler(cw).ret.function]
                 ELSE cw)
  /\ UNCHANGED <<interprets, program, sidevars>>

JumpNext ==
  \/ EmitJumpCase \/ EmitBodyCase \/ PatchJumpCase \/ EmitLoopCase
  \/ JumpInterpret
  \/ OpFalse \/ OpJump \/ OpJumpIfFalse \/ OpLoop

SpecJump == JumpInit /\ [][JumpNext]_vars

(***************************************************************************)
(* Blocks and functions entered and left around declarations and uses,     *)
(* far enough for a function to capture a local of a block that is then    *)
(* left.  Once every statement entered has been left the script may be     *)
(* ended and run.                                                          *)
(***************************************************************************)
\* bytes emitted, over all chunks, before this walk stops
MaxScopeCode == 11

\* the numbers of statements entered and not left at which a block or a
\* function is entered: a function in a block, a block in a function
ScopeNestings == 0..1

Scoping ==
  cw.ok /\ status = "idle" /\ CodeSize(cw.chunks, 1) < MaxScopeCode

ScopeEnterBlock ==
  /\ Scoping
  /\ Len(walk.pending) \in ScopeNestings
  /\ EnterBlock

ScopeLeaveBlock == Scoping /\ LeaveBlock

ScopeEnterFunction ==
  /\ Scoping
  /\ Len(walk.pending) \in ScopeNestings
  /\ EnterFunction(Fun("f", <<>>, <<>>))

ScopeLeaveFunction == Scoping /\ LeaveFunction

\* `var a;` of a local
ScopeDeclare ==
  Scoping /\ Current(cw).scope_depth > 0 /\ DeclareVar("a")

\* `a;` in the body of a function
ScopeUse == Scoping /\ Len(cw.compilers) > 1 /\ UseVar("a")

\* the loop of compile after a statement returned Err: the error is
\* remembered and the next statement is compiled, by the compiler and at the
\* scope depth the failed statement was in when it returned.  The frame
\* "Failed" at the bottom of walk.pending holds that depth.
ScopeRecover ==
  /\ ~cw.ok
  /\ ~cw.panic
  /\ status = "idle"
  /\ CodeSize(cw.chunks, 1) < MaxScopeCode
  /\ \A i \in 1..Len(walk.pending) : walk.pending[i].t # "Failed"
  /\ Walked([cw EXCEPT !.ok = TRUE],
            [pending |-> <<[t |-> "Failed",
                            depth |-> Current(cw).scope_depth]>>,
             result |-> None])

\* compile returns the function of end_compiler, no statement having
\* failed, and interpret goes on from there
ScopeInterpret ==
  /\ cw.ok
  /\ walk.pending = <<>>
  /\ status = "idle"
  /\ Interpreted([EndCompiler(cw) EXCEPT
                    !.ret = EndCompiler(cw).ret.function])
  /\ UNCHANGED <<interprets, program, sidevars>>

ScopeNext ==
  \/ ScopeEnterBlock \/ ScopeLeaveBlock
  \/ ScopeEnterFunction \/ ScopeLeaveFunction
  \/ ScopeDeclare \/ ScopeUse \/ ScopeRecover
  \/ ScopeInterpret
  \/ OpNil \/ OpPop \/ OpClosure \/ OpCloseUpvalue \/ OpReturn

SpecScope == WalkInit /\ [][ScopeNext]_vars

(***************************************************************************)
(* The function interner (function.rs): functions handed to Handle::from   *)
(* one after the other.  A Function is its name and its arity; a handle is *)
(* an index into Interner.functions.  functions.made is the last call:     *)
(* the function handed in and the handle returned.                         *)
(***************************************************************************)
\* functions the interner holds before the calls stop
MaxFunctions == 3

\* the functions handed to the interner
FunctionNames == {"f", "g", "h"}
FunctionArities == 0..2

\* Interner::new
FunctionInternerNew == [handle_map |-> <<>>, functions |-> <<>>]

\* handle_map.get(&name): the index of the entry of that name, 0 when none
HandleMapGet(handle_map, name) ==
  IF \E i \in 1..Len(handle_map) : handle_map[i].name = name
  THEN CHOOSE i \in 1..Len(handle_map) : handle_map[i].name = name
  ELSE 0

\* Interner::intern: [interner, handle]
FunctionIntern(interner, function) ==
  IF HandleMapGet(interner.handle_map, function.name) # 0
  THEN [interner |-> interner,
        handle |-> interner.handle_map[
                     HandleMapGet(interner.handle_map, function.name)].handle]
  ELSE [interner |->
          [handle_map |-> Append(interner.handle_map,
                                 [name |-> function.name,
                                  handle |-> Len(interner.functions)]),
           functions |-> Append(interner.functions, function)],
        handle |-> Len(interner.functions)]

\* Interner::get, Handle::get
FunctionGet(interner, handle) == interner.functions[handle + 1]

FunctionsInit ==
  /\ InitVM
  /\ functions = [interner |-> FunctionInternerNew, made |-> None]
  /\ cw = None
  /\ walk = None
  /\ legacy = None
  /\ parser = None

\* Handle::from(func)
FunctionFrom ==
  /\ Len(functions.interner.functions) < MaxFunctions
  /\ \E name \in FunctionNames, arity \in FunctionArities :
        LET function == [name |-> name, arity |-> arity]
            r == FunctionIntern(functions.interner, function)
        IN functions' = [interner |-> r.interner,
                         made |-> [t |-> "Some", function |-> function,
                                   handle |-> r.handle]]
  /\ UNCHANGED <<vmvars, cw, walk, legacy, parser>>

SpecFunctions == FunctionsInit /\ [][FunctionFrom]_vars

(***************************************************************************)
(* Properties.                                                             *)
(***************************************************************************)
\* the place of a source in Sources
ProgramOf(source) == CHOOSE p \in 1..Len(Sources) : Sources[p] = source

\* stdout ends with these lines
OutEndsWith(lines) ==
  /\ Len(lines) <= Len(out)
  /\ SubSeq(out, Len(out) - Len(lines) + 1, Len(out)) = lines

LastErr == IF err = <<>> THEN "" ELSE err[Len(err)]

\* the operand byte of the instruction about to run, and the machine that
\* read the opcode
Operand == ReadU8(Fetched.vm).byte
Machine == Fetched.vm

\* C1: whenever run returns Ok (the top-level Return), the value stack is
\* empty and no frame is left.
C1_StackEmptyAtExit ==
  status = "Ok" => stack_count = 0 /\ frame_count = 0

\* the cell SetUpvalue or GetUpvalue is about to use
TargetCell == CurrentFrame(Machine).closure.upvalues[Operand + 1]

\* the open cells pointing at the slot SetLocal is about to write
OpenCellsOfSlot ==
  {c \in 1..Len(cells) :
     cells[c].location = CurrentFrame(Machine).starts_at + Operand}

\* C2: while a cell is open it aliases its stack slot both ways: after
\* SetUpvalue through the cell the slot holds the value written (what a
\* later GetLocal reads), and after SetLocal on the slot the cell yields the
\* value written (what a later GetUpvalue reads).
C2_OpenCellAliasesSlot ==
  /\ (Instruction = "SetUpvalue" /\ cells[TargetCell].location # Closed) =>
       DoSetUpvalue(Machine).stack[cells[TargetCell].location]
         = Peek(Machine, 0)
  /\ Instruction = "SetLocal" =>
       \A c \in OpenCellsOfSlot :
          AsValue(DoSetLocal(Machine), c) = Peek(Machine, 0)

\* the closures among the globals that hold cell c
HoldersOf(c) ==
  {g \in DOMAIN globals :
     /\ globals[g].k = "Closure"
     /\ \E j \in 1..Len(globals[g].closure.upvalues) :
          globals[g].closure.upvalues[j] = c}

\* C3: once the captured local's scope has ended (the cell is closed), a
\* SetUpvalue through one closure is what GetUpvalue yields through every
\* closure holding the cell; two closures that captured the same local hold
\* the same cell, so get() prints what set(v) wrote, in every order of calls.
C3_ClosedCellIsShared ==
  /\ (Instruction = "SetUpvalue" /\ cells[TargetCell].location = Closed) =>
       \A g \in HoldersOf(TargetCell) :
          \A j \in 1..Len(globals[g].closure.upvalues) :
             globals[g].closure.upvalues[j] = TargetCell =>
               AsValue(DoSetUpvalue(Machine), globals[g].closure.upvalues[j])
                 = Peek(Machine, 0)
  /\ (program = ProgramOf(SrcShared) /\ status = "Ok") =>
       OutEndsWith(<<"1", "2", "4", "4">>)

\* a SetUpvalue on a closed cell that two global closures of different
\* functions hold
C3_Witness ==
  /\ Instruction = "SetUpvalue"
  /\ cells[TargetCell].location = Closed
  /\ \E g, h \in HoldersOf(TargetCell) :
        globals[g].closure.function # globals[h].closure.function

\* C4: Equal on two function values pushes true exactly when they are the
\* same function.
C4_FunctionEquality ==
  (/\ Instruction = "Equal"
   /\ stack_count >= 2
   /\ Peek(Machine, 0).k = "Closure"
   /\ Peek(Machine, 1).k = "Closure") =>
     Peek(DoEqual(Machine), 0)
       = Bool(Peek(Machine, 1).closure.function
                = Peek(Machine, 0).closure.function)

\* the locals of a compiler having the name
LocalsNamed(compiler, name) ==
  {i \in 1..Len(compiler.locals) : compiler.locals[i].name = name}

\* some function enclosing the current one declares the name
EnclosingDeclares(name) ==
  \E k \in 1..(Len(cw.compilers) - 1) : LocalsNamed(cw.compilers[k], name) # {}

\* C5: get_arg gives the local op with the slot of the latest declared local
\* of that name in the current function; else, when an enclosing function
\* declares the name, the upvalue op; else the global op with the name as
\* its constant.  An assignment to a name declared in a function is never a
\* SetGlobal.
C5_ResolutionOrder ==
  (cw # None /\ walk # None /\ walk.result # None) =>
    LET r == walk.result
        here == LocalsNamed(Current(cw), r.name)
    IN /\ here # {} =>
            /\ r.op = IF r.set THEN Op.SetLocal ELSE Op.GetLocal
            /\ \A i \in here : i - 1 <= r.arg
            /\ r.arg + 1 \in here
       /\ (here = {} /\ EnclosingDeclares(r.name)) =>
            r.op = IF r.set THEN Op.SetUpvalue ELSE Op.GetUpvalue
       /\ (here = {} /\ ~EnclosingDeclares(r.name)) =>
            /\ r.op = IF r.set THEN Op.SetGlobal ELSE Op.GetGlobal
            /\ CurrentChunk(cw).constants[r.arg + 1].k = "String"
            /\ AsStr(cw.strings, CurrentChunk(cw).constants[r.arg + 1].v)
                 = r.name

\* an assignment resolved to the later of two locals of one name, in a
\* function nested in another
C5_Witness ==
  /\ cw # None /\ walk # None /\ walk.result # None
  /\ walk.result.set
  /\ walk.result.op = Op.SetLocal
  /\ Cardinality(LocalsNamed(Current(cw), walk.result.name)) >= 2
  /\ Len(cw.compilers) >= 2

\* C6: `a and b` with a falsy and `a or b` with a truthy leave a and run no
\* instruction of b (b prints "b" when it runs); otherwise the value is b's;
\* each expression leaves exactly one value for the print that follows: at a
\* script-level print the stack holds the script's closure and that value
\* above the frame's base.
C6_ShortCircuit ==
  program = ProgramOf(SrcLogic) =>
    /\ (Instruction = "PrintOp" /\ frame_count = 1) =>
         stack_count = CurrentFrame(VMState).starts_at + 2
    /\ status = "Ok" =>
         OutEndsWith(<<"false", "nil", "b", "2", "1", "b", "3">>)

C6_Witness ==
  /\ program = ProgramOf(SrcLogic)
  /\ status = "Ok"
  /\ Len(out) >= 7

\* the callee of the Call about to run is a closure called with its arity
CallsClosure ==
  /\ Instruction = "Call"
  /\ PeekOk(ReadU8(Machine).vm, Operand)
  /\ Peek(Machine, Operand).k = "Closure"
  /\ Peek(Machine, Operand).closure.function.arity = Operand

\* C7: frame_count never exceeds 64, the frame array is never indexed out
\* of bounds, and a Call of a closure with 64 frames active ends the
\* interpret call with the runtime error "Stack overflow." and a reset stack.
C7_CallAtFrameLimit ==
  /\ frame_count <= CALL_FRAME_MAX
  /\ ~(status = "Panic" /\ LastErr = FramesIndexPanic)
  /\ (CallsClosure /\ frame_count = CALL_FRAME_MAX) =>
       /\ DoCall(Machine, Nil).status = "RuntimeError"
       /\ \E i \in 1..Len(DoCall(Machine, Nil).err) :
             DoCall(Machine, Nil).err[i] = "Stack overflow."
       /\ DoCall(Machine, Nil).stack_count = 0
       /\ DoCall(Machine, Nil).frame_count = 0

\* C8: stack_count never exceeds 256, no push writes outside the slots, and
\* a push with 256 values on the stack ends the interpret call with a
\* runtime error.
C8_PushAtCapacity ==
  /\ stack_count <= STACK_MAX
  /\ ~(status = "Panic" /\ LastErr = StackIndexPanic)
  /\ (status = "running" /\ stack_count = STACK_MAX) =>
       Push(VMState, Nil).status = "RuntimeError"

\* C9: a chunk never holds more than 256 constants, adding one never
\* panics, and once more than 256 were handed to it the compile has failed
\* with an error reported.
C9_ConstantLimit ==
  /\ cw # None =>
       /\ Len(CurrentChunk(cw).constants) <= U8_MAX + 1
       /\ ~cw.panic
       /\ Literals(CurrentChunk(cw)) > U8_MAX + 1 => (~cw.ok /\ cw.errs # <<>>)
  /\ legacy # None =>
       /\ Len(legacy.chunk.constants) <= U8_MAX + 1
       /\ ~legacy.panicked
       /\ Literals(legacy.chunk) > U8_MAX + 1 => legacy.had_error

\* C10: "Too many local variables in function." is reported only for a
\* declaration that would be the 257th entry of locals, and locals never
\* holds more than 256 entries.
C10_LocalsLimit ==
  cw # None =>
    /\ Len(Current(cw).locals) <= U8_MAX + 1
    /\ (\E i \in 1..Len(cw.errs) :
          cw.errs[i] = "Too many local variables in function.") =>
         Len(Current(cw).locals) = U8_MAX + 1

\* the trace line of a frame: its line, then `script` or the function's name
TraceOf(line, function) ==
  "[line " \o ToString(line) \o "] in " \o
  (IF AsStr(strings, function.name) = "" THEN "script"
   ELSE AsStr(strings, function.name) \o "()")

\* the line of the instruction frame i is at: the one about to run in the
\* innermost frame, the call it is waiting on in the others
LineOf(i) ==
  LET lines == chunks[frames[i].closure.function.chunk].lines
  IN IF i = frame_count - 1 THEN lines[frames[i].ip + 1]
     ELSE lines[frames[i].ip]

\* C11: a step that ends in a runtime error writes the message, then one
\* trace line for each active frame, the innermost first and the top-level
\* one last as `in script`, and leaves stack_count = 0, frame_count = 0 and
\* every frame reset.
C11_RuntimeErrorTrace ==
  [][(status = "running" /\ status' = "RuntimeError") =>
       /\ stack_count' = 0
       /\ frame_count' = 0
       /\ \A i \in 0..(CALL_FRAME_MAX - 1) : frames'[i] = CallFrameDefault
       /\ Len(err') = Len(err) + 1 + frame_count
       /\ \A k \in 1..frame_count :
             err'[Len(err) + 1 + k]
               = TraceOf(LineOf(frame_count - k),
                         frames[frame_count - k].closure.function)
       /\ \E line \in 1..3 :
             err'[Len(err')] = "[line " \o ToString(line) \o "] in script"]_vars

\* the error raised two calls deep has left its message and three lines
C11_Witness ==
  /\ program = ProgramOf(SrcTrace)
  /\ status = "RuntimeError"
  /\ stack_count = 0
  /\ Len(err) >= 4
  /\ SubSeq(err, Len(err) - 3, Len(err))
       = <<"Undefined variable 'nope'.", "[line 1] in inner()",
           "[line 2] in outer()", "[line 3] in script">>

\* the name a GetGlobal, DefineGlobal or SetGlobal about to run refers to
GlobalName ==
  AsStr(strings, CurrentChunkVM(Machine).constants[Operand + 1].v)

\* C12: SetGlobal on a name that is not defined is a runtime error and
\* leaves the globals as they were, key for key and value for value;
\* GetGlobal on a name that is not defined is a runtime error too.
C12_UndefinedGlobal ==
  /\ (Instruction = "SetGlobal" /\ GlobalName \notin DOMAIN globals) =>
       /\ DoSetGlobal(Machine).status = "RuntimeError"
       /\ DoSetGlobal(Machine).globals = globals
  /\ (Instruction = "GetGlobal" /\ GlobalName \notin DOMAIN globals) =>
       /\ DoGetGlobal(Machine).status = "RuntimeError"
       /\ DoGetGlobal(Machine).globals = globals

C12_Witness ==
  /\ Instruction = "SetGlobal"
  /\ GlobalName \notin DOMAIN globals
  /\ PeekOk(Machine, 0)

\* the input that is a line of the session
LineOfSession(line) ==
  Len(Sources) + (CHOOSE l \in 1..Len(Lines) : Lines[l] = line)

\* C13: a global stays in the table with its value through every step,
\* the start of a later interpret call and the end of a call in a compile
\* or a runtime error included, unless a DefineGlobal or SetGlobal of that
\* very name runs; and GetGlobal yields the value the table holds.
C13_GlobalsPersist ==
  [][/\ \A n \in DOMAIN globals :
          /\ n \in DOMAIN globals'
          /\ globals'[n] # globals[n] =>
               (Instruction \in {"DefineGlobal", "SetGlobal"} /\ GlobalName = n)
     /\ (Instruction = "GetGlobal" /\ GlobalName \in DOMAIN globals) =>
          /\ status' = "running"
          /\ stack'[stack_count' - 1] = globals[GlobalName]]_vars

\* the third line of a session reads the global an earlier line defined,
\* another line having ended in an error
C13_Witness ==
  /\ program = LineOfSession(LineRead)
  /\ interprets = 3
  /\ err # <<>>
  /\ Instruction = "PrintOp"
  /\ Peek(VMState, 0) = Number(7)

\* the callee of the Call about to run is a host function
CallsNative ==
  /\ Instruction = "Call"
  /\ PeekOk(Machine, Operand)
  /\ Peek(Machine, Operand).k = "Native"

\* C14: a Call of a host function hands it exactly the argc argument
\* values in call order, pushes no frame, writes the result over the
\* callee's slot and lowers stack_count by argc.
C14_NativeCall ==
  CallsNative =>
    /\ NativeArgs(Machine, Operand)
         = [i \in 1..Operand |-> stack[stack_count - Operand + i - 1]]
    /\ \A t \in ClockValues :
          /\ DoCall(Machine, Number(t)).status = "running"
          /\ DoCall(Machine, Number(t)).frame_count = frame_count
          /\ DoCall(Machine, Number(t)).stack_count = stack_count - Operand
          /\ DoCall(Machine, Number(t)).stack[stack_count - Operand - 1]
               = Number(t)

\* the parser parse_tokens leaves of the input p, a line of the session
ParsedLine(p) == ParseTokens(Lines[p - Len(Sources)])

C16_PanicCleared ==
  [][(parser # None /\ parser'.p # parser.p
      /\ ~ParseDeclaration(parser.p).ok) =>
        /\ Len(parser'.p.errs) > Len(parser.p.errs)
        /\ ~parser'.p.panic_mode]_vars

\* C17: a compile error inside a statement, nested in a block or in a
\* function body or not, never crashes the compiler: the statements after
\* it are compiled and the interpret call ends in CompileError.
C17_CompilerRecovers ==
  [][(interprets' # interprets /\ Compiled(program').errs # <<>>) =>
        /\ ~Compiled(program').panic
        /\ status' = "CompileError"]_vars

\* the locals of that name declared at the current depth of the function
\* being compiled
SameScope(name) ==
  {i \in LocalsNamed(Current(cw), name) :
     Current(cw).locals[i].depth = Current(cw).scope_depth}

\* C18: `var n;` where a local n of the same scope of the same function
\* exists is the error "Already a variable with this name in this scope."
\* and adds no local; where n is only declared in outer scopes, or not at
\* all, it is accepted and adds a local that later uses of n resolve to;
\* at depth 0 it is always accepted and defines a global.
C18_Redeclaration ==
  [][\A n \in Names :
       (cw.ok /\ cw' # cw /\ cw' = VarDeclaration(cw, VarDecl(n, None))) =>
         IF Current(cw).scope_depth = 0
         THEN /\ cw'.ok
              /\ Current(cw').locals = Current(cw).locals
              /\ CurrentChunk(cw').code[GetCurrentLen(cw') - 1]
                   = Op.DefineGlobal
         ELSE IF SameScope(n) # {}
         THEN /\ ~cw'.ok
              /\ cw'.errs = Append(cw.errs, "Error at '" \o n
                     \o "': Already a variable with this name in this scope.")
              /\ Current(cw').locals = Current(cw).locals
         ELSE /\ cw'.ok
              /\ cw'.errs = cw.errs
              /\ Len(Current(cw').locals) = Len(Current(cw).locals) + 1
              /\ ResolveLocal(Current(cw'), n)
                   = [err |-> FALSE, found |-> TRUE,
                      slot |-> Len(Current(cw).locals)]]_vars

\* a name declared in a block and again in a block inside it, then a
\* second time in the inner block: the error
C18_Witness ==
  /\ cw # None /\ ~cw.ok
  /\ Len(walk.pending) = 2
  /\ \E n \in Names :
        /\ Cardinality(LocalsNamed(Current(cw), n)) = 2
        /\ Cardinality(SameScope(n)) = 1
        /\ cw.errs = <<"Error at '" \o n
               \o "': Already a variable with this name in this scope.">>

\* the handle from_str gives for s, and the interner it leaves
HandleOf(interner, s) == Intern(interner, s).handle
After(interner, s) == Intern(interner, s).strings

\* C19: whatever was interned before, from_str(a) and a later from_str(b)
\* give equal handles exactly when a = b; from_str(a) asked again later
\* gives the same handle; a string interned for the first time gets the
\* next index, so handles are 0, 1, 2, ... in order of first interning;
\* as_str(from_str(a)) = a; and no call changes what a handle given
\* earlier stands for.
C19_Interner ==
  [][/\ \A a, b \in Texts :
          LET later == After(After(strings, a), b)
          IN /\ (HandleOf(strings, a) = HandleOf(After(strings, a), b))
                  <=> (a = b)
             /\ HandleOf(later, a) = HandleOf(strings, a)
             /\ AsStr(After(strings, a), HandleOf(strings, a)) = a
             /\ AsStr(later, HandleOf(strings, a)) = a
             /\ (\A h \in 0..(Len(strings) - 1) : AsStr(strings, h) # a)
                  => HandleOf(strings, a) = Len(strings)
     /\ \A h \in 0..(Len(strings) - 1) :
          /\ h < Len(strings')
          /\ AsStr(strings', h) = AsStr(strings, h)
          /\ HandleOf(strings', AsStr(strings, h)) = h]_vars

\* "b", "a" and then their sum "ba" were interned, "a" having been asked
\* for a second time
C19_Witness ==
  /\ status = "idle"
  /\ strings = <<"b", "a", "ba">>
  /\ HandleOf(strings, "a") = 1

\* C20: whatever emit operations have run, each chunk has as many lines
\* as bytes of code.
C20_CodeAndLines ==
  cw # None =>
    \A i \in 1..Len(cw.chunks) :
       Len(cw.chunks[i].code) = Len(cw.chunks[i].lines)

\* a jump emitted and patched, then a constant, then a loop
C20_Witness ==
  /\ cw # None /\ walk # None /\ walk.pending = <<>>
  /\ GetCurrentLen(cw) = 8
  /\ CurrentChunk(cw).code[1] = Op.Jump
  /\ CurrentChunk(cw).code[3] = 0
  /\ CurrentChunk(cw).code[4] = Op.Constant
  /\ CurrentChunk(cw).code[6] = Op.Loop
  /\ CurrentChunk(cw).lines = <<0, 0, 0, 0, 0, 0, 0, 0>>

\* C21: between two instructions of a running program, the callee slot of
\* every active frame is a live stack slot: stack_count >= starts_at + 1.
C21_CalleeSlotLive ==
  status = "running" =>
    \A i \in 0..(frame_count - 1) : stack_count >= frames[i].starts_at + 1

\* three frames deep, the innermost frame holding its callee slot and
\* nothing else
C21_Witness ==
  /\ status = "running"
  /\ frame_count >= 3
  /\ stack_count = frames[frame_count - 1].starts_at + 1
  /\ frames[frame_count - 2].ip > 0

\* the cells of the open list from the cell c on, the head first
RECURSIVE OpenFrom(_, _)
OpenFrom(cs, c) == IF c = 0 THEN <<>> ELSE <<c>> \o OpenFrom(cs, cs[c].next)

\* the open list of the VM
OpenList == OpenFrom(cells, open_upvalues)

\* C22: the open list is strictly descending in stack index from its head,
\* so no two of its cells stand for one slot; and capture_upvalue for a
\* slot that has an open cell returns that cell and allocates nothing.
C22_OpenListDescending ==
  /\ \A i \in 1..(Len(OpenList) - 1) :
        cells[OpenList[i]].location > cells[OpenList[i + 1]].location
  /\ \A i \in 1..Len(OpenList) :
        /\ cells[OpenList[i]].location # Closed
        /\ CaptureUpvalue(VMState, cells[OpenList[i]].location).cell
             = OpenList[i]
        /\ CaptureUpvalue(VMState, cells[OpenList[i]].location).vm = VMState

\* three slots captured, the middle one last and after a close
C22_Witness ==
  /\ Len(OpenList) = 2
  /\ cells[OpenList[1]].location = 2
  /\ cells[OpenList[2]].location = 1
  /\ OpenList[2] = 3
  /\ cells[1].location = Closed

\* the programs that are a for statement whose body prints the loop
\* variable, counted up from 0 by the increment
ForPrograms ==
  {ProgramOf(SrcFor), ProgramOf(SrcForNoInitializer),
   ProgramOf(SrcForNoCondition)}

\* C23: the increment of a for statement never runs before the first
\* execution of the body and runs once between two executions: the k-th
\* execution of the body prints k - 1.
C23_IncrementAfterBody ==
  program \in ForPrograms =>
    \A k \in 1..Len(out) : out[k] = ToString(k - 1)

\* the code of the chunk the current frame runs, and the place in it (from
\* 1) of the opcode about to run
CodeNow == chunks[CurrentFrame(VMState).closure.function.chunk].code
OpcodeAt == CurrentFrame(VMState).ip + 1

\* the closure the Closure about to run pushes
Built == Peek(DoClosure(Machine), 0).closure

\* C24: when Closure builds a closure, each operand pair j with
\* is_local = 0 and index = k makes upvalue j of the new closure the very
\* cell that is upvalue k of the closure running.
C24_ClosureCopiesIndexed ==
  (Instruction = "Closure" /\ DoClosure(Machine).status = "running") =>
    \A j \in 0..(Len(Built.upvalues) - 1) :
       CodeNow[OpcodeAt + 2 + 2 * j] = 0 =>
         Built.upvalues[j + 1]
           = CurrentFrame(VMState).closure.upvalues[
               CodeNow[OpcodeAt + 3 + 2 * j] + 1]

\* the places (from 0) of the pair in a vector of upvalues
PlacesOf(upvalues, index, is_local) ==
  {p \in 0..(Len(upvalues) - 1) :
     upvalues[p + 1] = [index |-> index, is_local |-> is_local]}

\* C25: add_upvalue(index, is_local) returns a slot that holds that pair;
\* a call for a pair the vector already holds returns the slot of that
\* pair and leaves the vector and upvalue_count as they were.
C25_AddUpvalueDeduplicates ==
  (cw # None /\ walk # None /\ walk.result # None) =>
    LET r == walk.result
        held == PlacesOf(r.upvalues, r.index, r.is_local)
    IN /\ r.slot \in PlacesOf(Current(cw).upvalues, r.index, r.is_local)
       /\ held # {} =>
            /\ r.slot \in held
            /\ Current(cw).upvalues = r.upvalues
            /\ Current(cw).function.upvalue_count = r.upvalue_count

\* the cells of a sequence as a set
CellsIn(list) == {list[i] : i \in 1..Len(list)}

\* C26: close_upvalues(last) closes exactly the open cells of a slot >=
\* last: each gets the value its slot holds and leaves the list.  Every
\* other cell is as it was: the open cells of a slot < last stay open, in
\* the list in the same order, and read their slot.
C26_CloseUpvaluesEffect ==
  [][\A last \in Slots :
       (/\ cells' = CloseUpvalues(VMState, last).cells
        /\ open_upvalues' = CloseUpvalues(VMState, last).open_upvalues
        /\ stack' = stack) =>
         /\ \A c \in 1..Len(cells) :
              IF c \in CellsIn(OpenList) /\ cells[c].location >= last
              THEN /\ cells'[c].location = Closed
                   /\ cells'[c].closed = stack[cells[c].location]
                   /\ c \notin CellsIn(OpenList')
              ELSE cells'[c] = cells[c]
         /\ OpenList'
              = SelectSeq(OpenList, LAMBDA c : cells[c].location < last)
         /\ \A c \in CellsIn(OpenList') :
              AsValue(VMState', c) = stack'[cells[c].location]]_vars

\* of three open cells the two of slots 1 and 2 were closed with the
\* values written there, the one of slot 0 is still open
C26_Witness ==
  /\ Len(cells) = 3
  /\ OpenList = <<1>>
  /\ cells[1].location = 0
  /\ cells[2].location = Closed /\ cells[2].closed = Number(1)
  /\ cells[3].location = Closed /\ cells[3].closed = Number(2)
  /\ stack[0] = Number(2)

\* C27: a closed cell stays closed and off the open list through every
\* step, interpret calls included; its value is the one its slot held when
\* it was closed, and changes only by a SetUpvalue on that very cell,
\* whatever is pushed, popped or set at the slot it once stood for; and
\* GetUpvalue on it pushes that value.
C27_ClosedStaysClosed ==
  [][/\ \A c \in 1..Len(cells) :
          /\ c <= Len(cells')
          /\ cells[c].location = Closed =>
               /\ cells'[c].location = Closed
               /\ c \notin CellsIn(OpenList')
               /\ cells'[c].closed # cells[c].closed =>
                    (Instruction = "SetUpvalue" /\ TargetCell = c)
          /\ (cells[c].location # Closed /\ cells'[c].location = Closed) =>
               cells'[c].closed = stack[cells[c].location]
     /\ (Instruction = "GetUpvalue" /\ cells[TargetCell].location = Closed) =>
          /\ status' = "running"
          /\ stack'[stack_count' - 1] = cells[TargetCell].closed]_vars

\* the counter's closed cell is read after two increments, the slot it
\* stood for holding something else by now
C27_Witness ==
  /\ program = ProgramOf(SrcCounter)
  /\ Instruction = "GetUpvalue"
  /\ cells[TargetCell].location = Closed
  /\ cells[TargetCell].closed = Number(2)
  /\ stack[1] # Number(2)

\* the frame that called the current one
CallerFrame == frames[frame_count - 2]

\* C28: a Return in a frame that has a caller removes that frame and no
\* other: frame_count goes down by one, the stack is cut to the frame's
\* base with the returned value on top of it, no open cell is left for a
\* slot at or above the base, and the caller's frame is as it was, its ip
\* just after its Call.
C28_ReturnRemovesFrame ==
  [][(Instruction = "Return" /\ frame_count > 1) =>
       /\ status' = "running"
       /\ frame_count' = frame_count - 1
       /\ stack_count' = CurrentFrame(VMState).starts_at + 1
       /\ stack'[stack_count' - 1] = Peek(VMState, 0)
       /\ \A i \in 0..(CurrentFrame(VMState).starts_at - 1) :
             stack'[i] = stack[i]
       /\ \A c \in CellsIn(OpenList') :
             cells'[c].location < CurrentFrame(VMState).starts_at
       /\ \A i \in 0..(frame_count' - 1) : frames'[i] = frames[i]
       /\ chunks[CallerFrame.closure.function.chunk].code[CallerFrame.ip - 1]
            = Op.Call]_vars

\* a function called by the script is about to return, a local of its
\* own still on the stack and captured in an open cell
C28_Witness ==
  /\ Instruction = "Return"
  /\ frame_count > 1
  /\ stack_count > CurrentFrame(VMState).starts_at + 2
  /\ OpenList # <<>>
  /\ cells[OpenList[1]].location >= CurrentFrame(VMState).starts_at

\* the programs made of if, while and for statements on globals: no
\* statement of theirs leaves a local on the stack
ConditionPrograms == {ProgramOf(SrcWhile), ProgramOf(SrcForCondition)}

\* C29: the condition an if, a while or a for tests is popped on the path
\* its JumpIfFalse takes and on the path it does not, so the statement
\* leaves the stack as high as it found it: when the script comes to its
\* Return the stack holds the script's closure and the nil to return.
C29_ConditionPopped ==
  (program \in ConditionPrograms /\ Instruction = "Return") =>
    stack_count = CurrentFrame(VMState).starts_at + 2

\* the frame once the instruction about to run has run
Landed ==
  CurrentFrame(IF Instruction = "Jump" THEN DoJump(Machine)
               ELSE IF Instruction = "JumpIfFalse" THEN DoJumpIfFalse(Machine)
               ELSE DoLoop(Machine))

\* C30: jump operands round-trip between compiler and VM: for every
\* displacement up to 65535 patch_jump succeeds, and the two big-endian
\* bytes it writes make Jump, and JumpIfFalse on a falsy value, land on the
\* code offset that was the end of the chunk when patch_jump ran; the bytes
\* emit_loop(start) writes make Loop land on start.
C30_JumpRoundTrip ==
  /\ (/\ walk.stage \in {"loop", "compiled", "failed"}
      /\ walk.patched_at - walk.offset - 2 <= U16_MAX
      /\ ~walk.loops \/ walk.patched_at + 3 - walk.loop_start <= U16_MAX) =>
       cw.errs = <<>>
  /\ Instruction = "Jump" => Landed.ip = walk.patched_at
  /\ (Instruction = "JumpIfFalse" /\ IsFalsy(Peek(Machine, 0))) =>
       Landed.ip = walk.patched_at
  /\ Instruction = "Loop" => Landed.ip = walk.loop_start

\* a Jump about to run over a body whose length takes both bytes of the
\* operand, the two being different
C30_Witness ==
  /\ Instruction = "Jump"
  /\ walk.patched_at - walk.offset - 2 = 4660
  /\ ReadU8(Machine).byte = 18
  /\ ReadU8(ReadU8(Machine).vm).byte = 52
  /\ Landed.ip = CurrentFrame(Machine).ip + 4660 + 2

\* the locals of compiler c declared in its innermost scope
DeclaredInnermost(c) ==
  {i \in 1..Len(c.locals) : c.locals[i].depth = c.scope_depth}

\* the instruction end_scope emits for a local
ScopeExitOp(local) == IF local.is_captured THEN Op.CloseUpvalue ELSE Op.Pop

\* the scope depth the statements entered and not left account for: one for
\* each block since the innermost function, one for that function, or the
\* depth a failed statement left behind
RECURSIVE DepthOfPending(_, _)
DepthOfPending(pending, i) ==
  IF i = 0 THEN 0
  ELSE IF pending[i].t = "Function" THEN 1
  ELSE IF pending[i].t = "Failed" THEN pending[i].depth
  ELSE 1 + DepthOfPending(pending, i - 1)

DepthOfWalk(w) == DepthOfPending(w.pending, Len(w.pending))

\* the step is the end_scope of a block
EndScopeStep ==
  /\ cw.ok
  /\ walk.pending # <<>>
  /\ Innermost.t = "Block"
  /\ Len(walk'.pending) = Len(walk.pending) - 1

\* C31: end_scope removes exactly the locals declared in the scope being
\* closed and emits one instruction per removed local, innermost first,
\* CloseUpvalue when the local is captured and Pop otherwise; after every
\* successfully compiled statement, one compiled after a failed one
\* included, each remaining local whose depth is set has it at most
\* scope_depth, and scope_depth is what it was before the statement.
C31_EndScopeBalanced ==
  [][cw'.ok =>
       /\ EndScopeStep =>
            LET old == Current(cw)
                new == Current(cw')
                gone == Cardinality(DeclaredInnermost(old))
                kept == Len(old.locals) - gone
            IN /\ new.scope_depth = old.scope_depth - 1
               /\ new.locals = SubSeq(old.locals, 1, kept)
               /\ \A i \in 1..kept : i \notin DeclaredInnermost(old)
               /\ CurrentChunk(cw').code =
                    CurrentChunk(cw).code \o
                      [k \in 1..gone |->
                         ScopeExitOp(old.locals[Len(old.locals) - k + 1])]
       /\ Len(walk'.pending) = Len(walk.pending) =>
            /\ Len(cw'.compilers) = Len(cw.compilers)
            /\ Current(cw').scope_depth = Current(cw).scope_depth
       /\ Current(cw').scope_depth = DepthOfWalk(walk')
       /\ \A c \in 1..Len(cw'.compilers) :
            \A i \in 1..Len(cw'.compilers[c].locals) :
               \/ cw'.compilers[c].locals[i].depth = NoDepth
               \/ cw'.compilers[c].locals[i].depth
                    <= cw'.compilers[c].scope_depth]_vars

\* a block has been left whose locals were a captured variable and, declared
\* after it, a function: the chunk ends with the function's Pop and then the
\* variable's CloseUpvalue, and the local of slot 0 remains
C31_Witness ==
  /\ cw.ok
  /\ GetCurrentLen(cw) > 1
  /\ CurrentChunk(cw).code[GetCurrentLen(cw)] = Op.CloseUpvalue
  /\ CurrentChunk(cw).code[GetCurrentLen(cw) - 1] = Op.Pop
  /\ Current(cw).scope_depth = 0
  /\ Len(Current(cw).locals) = 1

\* C32: the compiler's locals mirror the run-time stack: when GetLocal or
\* SetLocal with slot s runs, stack[starts_at + s] is the variable the
\* compiler resolved to slot s.  In `{ for (; false; ) { } var a = 1;
\* print a; }` the compiler has two locals in scope at `print a`, the
\* reserved one and a at slot 1: the GetLocal runs on a stack of that
\* height above the frame base, reads the 1 and the program prints 1.
C32_LocalsMirrorStack ==
  /\ (program = ProgramOf(SrcLocalAfterFor) /\ Instruction = "GetLocal") =>
       /\ Operand = 1
       /\ stack_count - CurrentFrame(Machine).starts_at = 2
       /\ stack[CurrentFrame(Machine).starts_at + Operand] = Number(1)
  /\ (program = ProgramOf(SrcLocalAfterFor) /\ status = "Ok") =>
       OutEndsWith(<<"1">>)

\* C33: at every instruction boundary and whenever interpret has returned,
\* every cell on the open list points at a stack index below stack_count;
\* the open list is empty once a runtime error has reset the stack.
C33_OpenCellsOnStack ==
  /\ status # "Panic" =>
       \A i \in 1..Len(OpenList) : cells[OpenList[i]].location < stack_count
  /\ status = "RuntimeError" => open_upvalues = 0

\* C34: compiling a source that yields zero tokens (empty, whitespace only
\* or comments only) does not crash and succeeds with an empty statement
\* list: parse_tokens on an empty token vector returns Some of an empty list.
C34_EmptySourceParses ==
  parser.p.tokens = <<>> =>
    /\ ~parser.p.panic
    /\ parser.returned =>
         ParseResult(parser.p) = [t |-> "Some", statements |-> <<>>]

\* C35: parse_tokens terminates on every finite token sequence: the token
\* position never passes the end of the tokens, and each iteration of the
\* main loop, whether declaration succeeds or fails and synchronize runs,
\* advances it by at least one.
C35_ParseTerminates ==
  /\ parser.p.current <= Len(parser.p.tokens)
  /\ (~parser.p.panic /\ ~IsAtEnd(parser.p)) =>
       /\ ParseIteration(parser.p).current > parser.p.current
       /\ ParseIteration(parser.p).current <= Len(parser.p.tokens)
       /\ ~ParseDeclaration(parser.p).ok =>
            Synchronize(ParseDeclaration(parser.p)).current
              >= ParseDeclaration(parser.p).current

\* after an iteration that failed and synchronized at a `;`, the next
\* declaration fails on its first token: only synchronize moves on
C35_Witness ==
  /\ parser.p.had_error
  /\ parser.p.current > 0
  /\ ~IsAtEnd(parser.p)
  /\ Previous(parser.p).kind = "Semicolon"
  /\ ~ParseDeclaration(parser.p).ok
  /\ ParseDeclaration(parser.p).current = parser.p.current

\* the step is CompilerWrapper::function leaving the body of a function
FunctionTailStep ==
  /\ cw.ok
  /\ cw'.ok
  /\ walk.pending # <<>>
  /\ Innermost.t = "Function"
  /\ Len(walk'.pending) = Len(walk.pending) - 1

\* the bytes of the operand pairs of upvalues
RECURSIVE PairsOf(_)
PairsOf(upvalues) ==
  IF upvalues = <<>> THEN <<>>
  ELSE <<IF upvalues[1].is_local THEN 1 ELSE 0, upvalues[1].index>>
         \o PairsOf(Tail(upvalues))

\* the prototype the Closure about to run names
Prototype == ReadConstant(Machine).value.function

\* C36: for every compiled function the operand pairs emitted after its
\* Closure instruction are as many as the prototype's upvalue_count, one
\* per upvalue of its compiler; the VM's Closure consumes exactly those
\* bytes, the next opcode is read from the offset behind them, and the
\* closure built has upvalue_count cells.
C36_ClosureOperands ==
  [][/\ FunctionTailStep =>
         LET inner == Current(cw)
             outer == Current(cw').function.chunk
             before == Len(cw.chunks[outer].code)
             code == cw'.chunks[outer].code
             n == Len(inner.upvalues)
         IN /\ Len(code) >= before + 2 + 2 * n
            /\ code[before + 1] = Op.Closure
            /\ cw'.chunks[outer].constants[code[before + 2] + 1].k = "Function"
            /\ cw'.chunks[outer].constants[code[before + 2] + 1]
                 .function.upvalue_count = n
            /\ SubSeq(code, before + 3, before + 2 + 2 * n)
                 = PairsOf(inner.upvalues)
            /\ \/ Len(code) = before + 2 + 2 * n
               \/ /\ Len(code) = before + 4 + 2 * n
                  /\ code[before + 3 + 2 * n] = Op.DefineGlobal
     /\ (Instruction = "Closure" /\ status' = "running") =>
         /\ CurrentFrame(VMState').ip
              = CurrentFrame(VMState).ip + 2 + 2 * Prototype.upvalue_count
         /\ stack'[stack_count' - 1].k = "Closure"
         /\ Len(stack'[stack_count' - 1].closure.upvalues)
              = Prototype.upvalue_count
         /\ Instruction' \in {"Pop", "DefineGlobal", "Nil", "Closure",
                               "CloseUpvalue", "Return"}]_vars

\* a closure with one cell has been built by the Closure instruction and
\* the opcode behind its operand pair is about to be read
C36_Witness ==
  /\ status = "running"
  /\ cw.ok
  /\ walk.pending = <<>>
  /\ stack_count > 1
  /\ stack[stack_count - 1].k = "Closure"
  /\ Len(stack[stack_count - 1].closure.upvalues) = 1
  /\ stack[stack_count - 1].closure.function.upvalue_count = 1
  /\ Instruction = "Pop"

\* the expression of the one statement parsed from LineEquality
EqualityParsed == ParseTokens(LineEquality).statements[1].expression

\* C37: binary operators of equal precedence group to the left:
\* `1 == 2 == false` is parsed as `(1 == 2) == false`, its left operand
\* being the Binary `1 == 2` and its right operand the literal, and prints
\* true.
C37_EqualityGroupsLeft ==
  (program = LineOfSession(LineEquality) /\ status = "Ok") =>
    /\ EqualityParsed.left.t = "Binary"
    /\ EqualityParsed.right.t = "Literal"
    /\ OutEndsWith(<<"true">>)

\* the expression of the second statement parsed from LineChain
ChainParsed == ParseTokens(LineChain).statements[2].expression

\* C38: a call expression may be applied to the result of another call:
\* `f()();` is parsed, each parenthesised argument list in turn, into a Call
\* whose callee is the Call of f, and `fun f() { return f; } f()();` runs
\* to its end.
C38_CallChainParses ==
  (program = LineOfSession(LineChain) /\ status # "running") =>
    /\ status = "Ok"
    /\ ChainParsed.t = "Call"
    /\ ChainParsed.callee.t = "Call"
    /\ ChainParsed.callee.callee = Ref("f")

\* C39: the function interner round-trips: Handle::from(f).get() is f, so
\* two different functions receive different handles even when they have
\* the same name.
C39_FunctionRoundTrip ==
  functions.made # None =>
    FunctionGet(functions.interner, functions.made.handle)
      = functions.made.function

====
